---- MODULE Spec2Model ----
(***************************************************************************)
(* Model of the reliable datagram engine of nest-udp (ReliableUdpSocket,   *)
(* RequestTracker, ChunkingHandler, CompressionHandler,                    *)
(* MessageEnvelopeHandler): one sending engine, one receiving engine and   *)
(* the datagram channel between them.                                      *)
(*                                                                         *)
(* Time is in milliseconds and advances in steps of TickMs; a timer fires  *)
(* at the instant it is due, before time advances again.                   *)
(***************************************************************************)
EXTENDS Integers, Sequences, FiniteSets, TLC

(***************************************************************************)
(* Program constants (reliable-udp-socket.constants).                      *)
(***************************************************************************)
MIN_MESSAGE_SIZE == 100
MAX_MESSAGE_SIZE == 65000
DEFAULT_CHUNK_SIZE == 1200
DEFAULT_REASSEMBLY_TIMEOUT == 30000
REQUEST_CLEANUP_AGE == 60000
DEFAULT_COMPRESSION_MIN_REDUCTION == 10
COMPRESSION_REDUCTION_MULTIPLIER == 100

\* MessageType, CodecIndex / CompressionCodecType, FlagBits
REQ == 0
ACK == 1
RES == 2
NONE == 0
GZIP == 1
SNAPPY == 2
LZ4 == 3
ZSTD == 4
CODEC_MASK == 7
COMPRESSED == 8
CHUNKED == 16
TYPE_MASK == 96
TYPE_SHIFT == 5

(***************************************************************************)
(* Bounds of the model.                                                    *)
(***************************************************************************)
MaxMsgs == 1        \* logical messages the application sends
MaxDup == 0         \* datagrams the channel duplicates, beyond the sender's retransmissions
TickMs == 60000     \* granularity of the clock
MaxRetries == 1     \* configured maxRetries
ChunkSize == 60     \* configured chunkSize (bytes)

RetryInterval == TickMs
RequestTimeout == 2 * TickMs
MaxTime == 2 * TickMs

NoChunk == -1       \* an id without the -chunk-<i> suffix / an absent ci, ct, os, cs
NoTimer == -1       \* a timer that is not armed

VARIABLES
  now,          \* Date.now()
  cfg,          \* the configuration of the two engines
  sends,        \* sender: per logical send, the closure state and the completions seen
  handlers,     \* sender: RequestTracker._handlers
  sendCb,       \* sender: socket.send completions that have not run yet
  sentCount,    \* sender: socket.send calls per REQ id
  net,          \* datagrams in flight
  dups,         \* datagrams duplicated so far
  assemblies,   \* receiver: ChunkingHandler._assemblies
  rxCur,        \* receiver: the REQ being handled, and the steps still to run
  rxAwait,      \* receiver: decompressions awaited
  appLog,       \* receiver: values handed to the application, in order
  hist,         \* bookkeeping of what has happened, per id
  closed,       \* the close() calls made: which engine, when, and what it held
  gen,          \* SnowflakeIdGenerator: its fields, the clock, the ids it has returned
  call,         \* the last call of an operation applied on its own: arguments and result
  isClosed,     \* sender: UdpSocket.isClosed
  tracker       \* a RequestTracker driven on its own: its map, the timers, the callbacks run

vars == <<now, cfg, sends, handlers, sendCb, sentCount, net, dups,
          assemblies, rxCur, rxAwait, appLog, hist, closed, gen, call, isClosed, tracker>>

\* the socket flag and the tracker driven on its own
ext == <<isClosed, tracker>>

\* what the events of an open engine leave alone
aux == <<closed, gen, call, isClosed, tracker>>

Min(a, b) == IF a < b THEN a ELSE b
CeilDiv(a, b) == (a + b - 1) \div b

(***************************************************************************)
(* Values.  A byte string is described by what it is a piece of: the text  *)
(* of logical message m (z = NONE: its JSON text, z = a codec: the base64  *)
(* text of its compressed form), total length len, bytes lo..hi-1.         *)
(*   k = "obj"    the application value of message m                       *)
(*   k = "str"    a string                                                 *)
(*   k = "bytes"  a Buffer                                                 *)
(*   k = "b64"    the base64 text of a Buffer                              *)
(*   k = "null"   null                                                     *)
(*   k = "empty"  the object {}                                            *)
(*   k = "junk"   bytes that are no piece of any message                   *)
(* n is the length of the JSON text of message m.                          *)
(***************************************************************************)
Val(k, m, z, lo, hi, len, n) ==
  [k |-> k, m |-> m, z |-> z, lo |-> lo, hi |-> hi, len |-> len, n |-> n]
Null == Val("null", 0, NONE, 0, 0, 0, 0)
EmptyObj == Val("empty", 0, NONE, 0, 0, 0, 0)
Junk == Val("junk", 0, NONE, 0, 0, 0, 0)
Undefined == Val("undefined", 0, NONE, 0, 0, 0, 0)
NullText == Val("str", 0, NONE, 0, 4, 4, 4)

\* the application value of message m, whose JSON text has n bytes
Body(m, n) == Val("obj", m, NONE, 0, n, n, n)

IsWhole(v) == v.lo = 0 /\ v.hi = v.len

\* JSON.stringify
JsonStringify(v) ==
  CASE v.k = "obj" -> [v EXCEPT !.k = "str"]
    [] v.k = "null" -> NullText
    [] OTHER -> v

\* JSON.parse; Junk stands for a SyntaxError
JsonParse(s) ==
  IF s = NullText THEN Null
  ELSE IF s.k = "str" /\ s.z = NONE /\ IsWhole(s) THEN [s EXCEPT !.k = "obj"]
  ELSE Junk

\* Buffer.from(s, 'utf8') and buffer.toString('utf8')
Utf8Bytes(s) == IF s.k = "str" THEN [s EXCEPT !.k = "bytes"] ELSE Junk
Utf8String(b) == IF b.k = "bytes" THEN [b EXCEPT !.k = "str"] ELSE Junk
\* Buffer.byteLength(s, 'utf8')
ByteLength(s) == s.hi - s.lo

\* buffer.toString('base64') and Buffer.from(s, 'base64')
ToBase64(b) == IF b.k = "bytes" THEN [b EXCEPT !.k = "b64"] ELSE Junk
FromBase64(s) == IF s.k = "b64" THEN [s EXCEPT !.k = "bytes"] ELSE Junk

\* buffer.subarray(start, end)
Subarray(b, start, end) == [b EXCEPT !.lo = b.lo + start, !.hi = b.lo + end]

\* Buffer.concat of two buffers
Concat2(a, b) ==
  IF a.k = "bytes" /\ b.k = "bytes" /\ a.m = b.m /\ a.z = b.z /\ a.len = b.len /\ a.hi = b.lo
  THEN [a EXCEPT !.hi = b.hi]
  ELSE Junk

RECURSIVE BufferConcat(_)
BufferConcat(bufs) ==
  IF Len(bufs) = 1 THEN bufs[1]
  ELSE Concat2(BufferConcat(SubSeq(bufs, 1, Len(bufs) - 1)), bufs[Len(bufs)])

(***************************************************************************)
(* MessageEnvelopeHandler                                                  *)
(***************************************************************************)
\* a faulty encodeFlags: the type is shifted one bit short
EncodeFlags_shift(type, codec, isCompressed, isChunked) ==
  codec + (IF isCompressed THEN COMPRESSED ELSE 0)
        + (IF isChunked THEN CHUNKED ELSE 0)
        + type * (2 ^ (TYPE_SHIFT - 1))

\* encodeFlags: codec | COMPRESSED | CHUNKED | type << TYPE_SHIFT
EncodeFlags(type, codec, isCompressed, isChunked) ==
  codec + (IF isCompressed THEN COMPRESSED ELSE 0)
        + (IF isChunked THEN CHUNKED ELSE 0)
        + type * (2 ^ TYPE_SHIFT)

\* decodeFlags; INDEX_TO_CODEC[i] || NONE for the codec
DecodeFlags(flags) ==
  LET codecIndex == flags % (CODEC_MASK + 1)
  IN [type |-> (flags % (TYPE_MASK + 2 ^ TYPE_SHIFT)) \div (2 ^ TYPE_SHIFT),
      codec |-> IF codecIndex <= ZSTD THEN codecIndex ELSE NONE,
      isCompressed |-> (flags \div COMPRESSED) % 2 = 1,
      isChunked |-> (flags \div CHUNKED) % 2 = 1]

\* ids: `${messageId}` and `${messageId}-chunk-${i}`
MsgId(m) == [base |-> m, chunk |-> NoChunk]
ChunkId(m, i) == [base |-> m, chunk |-> i]
\* id.split('-chunk-')[0]
SplitBase(id) == id.base

\* createEnvelope; an absent field is Undefined (checksum) or NoChunk (ci, ct, os, cs)
CreateEnvelope(id, type, body, checksum, codec, isCompressed, isChunked, chunkIndex, chunkTotal, originalSize, compressedSize) ==
  [id |-> id,
   body |-> body,
   flags |-> EncodeFlags(type, codec, isCompressed, isChunked),
   checksum |-> checksum,
   os |-> IF isCompressed THEN originalSize ELSE NoChunk,
   cs |-> IF isCompressed THEN compressedSize ELSE NoChunk,
   ci |-> IF isChunked /\ chunkIndex # NoChunk /\ chunkTotal # NoChunk THEN chunkIndex ELSE NoChunk,
   ct |-> IF isChunked /\ chunkIndex # NoChunk /\ chunkTotal # NoChunk THEN chunkTotal ELSE NoChunk,
   retryCount |-> NoChunk]

\* _sendAcknowledgement's envelope
AckEnvelope(id) ==
  CreateEnvelope(id, ACK, Null, Undefined, NONE, FALSE, FALSE, NoChunk, NoChunk, NoChunk, NoChunk)

\* _calculateChecksum: SHA-256 of the body's text, taken as the text itself
CalculateChecksum(data) ==
  [(IF data.k \in {"str", "b64"} THEN data ELSE JsonStringify(data)) EXCEPT !.k = "sha"]

(***************************************************************************)
(* CompressionHandler                                                      *)
(***************************************************************************)
ShouldCompress(c, size) == c.enabled /\ size >= c.minSize

NoResult == [data |-> Null, codec |-> NONE, originalSize |-> NoChunk, compressedSize |-> NoChunk]

\* tryCompress of the JSON text of message m; csize is the length of the codec's output
TryCompress(c, jsonString, csize) ==
  LET originalSize == ByteLength(jsonString)
      b64len == 4 * CeilDiv(csize, 3)
  IN IF ~c.enabled \/ originalSize < c.minSize THEN NoResult
     ELSE IF (originalSize - csize) * COMPRESSION_REDUCTION_MULTIPLIER
               >= c.minReduction * originalSize
     THEN [data |-> Val("str", jsonString.m, c.codec, 0, b64len, b64len, jsonString.n),
           codec |-> c.codec, originalSize |-> originalSize, compressedSize |-> csize]
     ELSE NoResult

\* tryDecompress: null when the codec is not registered or decompression or parsing throws
TryDecompress(available, data, codecName) ==
  IF codecName \notin available THEN Null
  ELSE IF data.k = "str" /\ data.z = codecName /\ IsWhole(data)
  THEN JsonParse(Val("str", data.m, NONE, 0, data.n, data.n, data.n))
  ELSE Null

(***************************************************************************)
(* ChunkingHandler                                                         *)
(***************************************************************************)
\* createChunks
CreateChunks(chunkSize, data) ==
  LET buffer == Utf8Bytes(data)
      length == ByteLength(buffer)
      totalChunks == CeilDiv(length, chunkSize)
  IN [i \in 0..(totalChunks - 1) |->
        ToBase64(Subarray(buffer, i * chunkSize, Min(i * chunkSize + chunkSize, length)))]

\* initAssembly
InitAssembly(as, messageId, totalChunks, codec, t) ==
  [b \in DOMAIN as \cup {messageId} |->
     IF b = messageId
     THEN [chunks |-> [i \in 0..(totalChunks - 1) |-> Null],
           totalChunks |-> totalChunks, receivedCount |-> 0,
           timestamp |-> t, compressionCodec |-> codec]
     ELSE as[b]]

\* a faulty addChunk: a duplicate is stored and counted again
AddChunk_dup(as, messageId, chunkIndex, chunkData) ==
  IF messageId \notin DOMAIN as THEN as
  ELSE IF chunkIndex \in DOMAIN as[messageId].chunks
  THEN [as EXCEPT ![messageId].chunks[chunkIndex] = chunkData,
                  ![messageId].receivedCount = @ + 1]
  ELSE as

\* a faulty addChunk: a duplicate replaces what the slot holds
AddChunk_overwrite(as, messageId, chunkIndex, chunkData) ==
  IF messageId \notin DOMAIN as THEN as
  ELSE IF chunkIndex \in DOMAIN as[messageId].chunks
  THEN [as EXCEPT ![messageId].chunks[chunkIndex] = chunkData,
                  ![messageId].receivedCount =
                     IF as[messageId].chunks[chunkIndex] = Null THEN @ + 1 ELSE @]
  ELSE as

\* addChunk: the assemblies afterwards
AddChunk(as, messageId, chunkIndex, chunkData) ==
  IF messageId \notin DOMAIN as THEN as
  ELSE IF chunkIndex \in DOMAIN as[messageId].chunks /\ as[messageId].chunks[chunkIndex] = Null
  THEN [as EXCEPT ![messageId].chunks[chunkIndex] = chunkData,
                  ![messageId].receivedCount = @ + 1]
  ELSE as

\* addChunk's result
IsComplete(as, messageId) ==
  messageId \in DOMAIN as /\ as[messageId].receivedCount = as[messageId].totalChunks

\* getAssembledData: Null, or the concatenated buffer
GetAssembledData(as, messageId) ==
  IF messageId \notin DOMAIN as \/ as[messageId].receivedCount # as[messageId].totalChunks
  THEN Null
  ELSE IF \E i \in DOMAIN as[messageId].chunks : as[messageId].chunks[i] = Null THEN Null
  ELSE IF \E i \in DOMAIN as[messageId].chunks : as[messageId].chunks[i].k \notin {"b64", "str"}
  THEN Null      \* Buffer.from throws on a chunk that is no string
  ELSE BufferConcat([i \in 1..as[messageId].totalChunks |->
                       FromBase64(as[messageId].chunks[i - 1])])

\* removeAssembly
RemoveAssembly(as, messageId) == [b \in DOMAIN as \ {messageId} |-> as[b]]

\* ChunkingHandler.clear
ClearAssemblies(as) == [b \in {} |-> as[b]]

\* a faulty cleanup: an assembly whose age equals reassemblyTimeout is removed too
CleanupStaleAssemblies_inclusive(as, reassemblyTimeout, t) ==
  [b \in {x \in DOMAIN as : ~(t - as[x].timestamp >= reassemblyTimeout)} |-> as[b]]

\* cleanupStaleAssemblies
CleanupStaleAssemblies(as, reassemblyTimeout, t) ==
  [b \in {x \in DOMAIN as : ~(t - as[x].timestamp > reassemblyTimeout)} |-> as[b]]

(***************************************************************************)
(* RequestTracker                                                          *)
(***************************************************************************)
\* register
Register(hs, messageId, requestTimeout, t) ==
  [i \in DOMAIN hs \cup {messageId} |->
     IF i = messageId
     THEN [ackReceived |-> FALSE, retryCount |-> 0, timestamp |-> t,
           timeoutId |-> t + requestTimeout, retryTimer |-> NoTimer]
     ELSE hs[i]]

\* setRetryTimer
SetRetryTimer(hs, messageId, timer) ==
  IF messageId \in DOMAIN hs THEN [hs EXCEPT ![messageId].retryTimer = timer] ELSE hs

\* incrementRetry
IncrementRetry(hs, messageId) ==
  IF messageId \in DOMAIN hs THEN [hs EXCEPT ![messageId].retryCount = @ + 1] ELSE hs

\* a faulty remove: the entry and its timers stay
Remove_keeps(hs, messageId) == hs

\* remove (also the end of invokeAndRemove): both timers are cleared with the entry
Remove(hs, messageId) == [i \in DOMAIN hs \ {messageId} |-> hs[i]]

\* a faulty clear: the entries and their timers stay
Clear_keeps(hs) == hs

\* clear: every entry is removed with its timers, no callback runs
Clear(hs) == [i \in {} |-> hs[i]]

\* a faulty sweep: entries whose age equals maxAge are removed too
OldRequests_inclusive(hs, maxAge, t) == {i \in DOMAIN hs : t - hs[i].timestamp >= maxAge}

\* cleanupOldRequests: the ids removed
OldRequests(hs, maxAge, t) == {i \in DOMAIN hs : t - hs[i].timestamp > maxAge}

(***************************************************************************)
(* Configuration and payloads                                              *)
(***************************************************************************)
\* configure(): the sender compresses with an optional codec, the receiver may lack it
ConfigsOf(checksums, codecSets) ==
  {[tx |-> [maxMessageSize |-> MIN_MESSAGE_SIZE, chunkSize |-> ChunkSize,
            maxRetries |-> MaxRetries, retryInterval |-> RetryInterval,
            requestTimeout |-> RequestTimeout, enableChecksum |-> TRUE,
            compression |-> [enabled |-> TRUE, codec |-> ZSTD,
                             minSize |-> MIN_MESSAGE_SIZE,
                             minReduction |-> DEFAULT_COMPRESSION_MIN_REDUCTION]],
    rx |-> [enableChecksum |-> ck, reassemblyTimeout |-> DEFAULT_REASSEMBLY_TIMEOUT,
            codecs |-> cs]] :
     ck \in checksums, cs \in codecSets}

Configs == ConfigsOf({TRUE}, {{GZIP}, {GZIP, ZSTD}})

\* the application's payloads: the length of the JSON text and of the codec's output
Payloads ==
  {[size |-> MIN_MESSAGE_SIZE, csize |-> MIN_MESSAGE_SIZE],
   [size |-> MIN_MESSAGE_SIZE + 1, csize |-> MIN_MESSAGE_SIZE + 1],
   [size |-> MIN_MESSAGE_SIZE + 1, csize |-> (MIN_MESSAGE_SIZE \div 4) * 3],
   [size |-> MIN_MESSAGE_SIZE + 1, csize |-> (MIN_MESSAGE_SIZE \div 4) * 3 + 1]}

Inc(f, k) == IF k \in DOMAIN f THEN [f EXCEPT ![k] = @ + 1] ELSE f @@ (k :> 1)
Count(f, k) == IF k \in DOMAIN f THEN f[k] ELSE 0

InitWith(configs) ==
  /\ now = 0
  /\ cfg \in configs
  /\ sends = <<>>
  /\ handlers = <<>>
  /\ sendCb = {}
  /\ sentCount = <<>>
  /\ net = {}
  /\ dups = 0
  /\ assemblies = <<>>
  /\ rxCur = [req |-> AckEnvelope(MsgId(0)), pc |-> <<>>]
  /\ rxAwait = <<>>
  /\ appLog = <<>>
  /\ hist = [acked |-> {}, timedOut |-> {}, swept |-> {}, sendFailed |-> {},
             dropped |-> {}, acks |-> <<>>, works |-> <<>>]

(***************************************************************************)
(* SnowflakeIdGenerator.  The clock of the generator is read in            *)
(* milliseconds since the configured epoch.  Beside the generator g the    *)
(* state holds the clock, the ids returned so far (issued, dup), the       *)
(* number of ids returned in millisecond g.lastTimestamp (count) and what  *)
(* the last call read and did (last).                                      *)
(***************************************************************************)
SNOWFLAKE_WORKER_ID_BITS == 10
SNOWFLAKE_SEQUENCE_BITS == 12
SNOWFLAKE_MAX_SEQUENCE == 2 ^ SNOWFLAKE_SEQUENCE_BITS - 1
SNOWFLAKE_WORKER_ID_SHIFT == SNOWFLAKE_SEQUENCE_BITS
SNOWFLAKE_TIMESTAMP_SHIFT == SNOWFLAKE_WORKER_ID_BITS + SNOWFLAKE_SEQUENCE_BITS

MaxClock == 2       \* clock readings are 0..MaxClock
MaxCalls == 4       \* generate() calls in one run

\* the constructor
NewGenerator(workerId, epoch) ==
  [workerId |-> workerId, epoch |-> epoch, sequence |-> 0, lastTimestamp |-> -1]

\* the id composed from timestamp, worker id and sequence
ComposeId(g, timestamp, sequence) ==
  (timestamp - g.epoch) * 2 ^ SNOWFLAKE_TIMESTAMP_SHIFT
    + g.workerId * 2 ^ SNOWFLAKE_WORKER_ID_SHIFT + sequence

\* a faulty generate: `<=` for `<` in the clock test
Generate_strict(g, reading, waited) ==
  LET same == reading = g.lastTimestamp
      sequence == IF same THEN (g.sequence + 1) % (SNOWFLAKE_MAX_SEQUENCE + 1) ELSE 0
      timestamp == IF same /\ sequence = 0 THEN waited ELSE reading
  IN IF timestamp <= g.lastTimestamp
     THEN [g |-> [g EXCEPT !.sequence = sequence], threw |-> TRUE, id |-> 0]
     ELSE [g |-> [g EXCEPT !.sequence = sequence, !.lastTimestamp = timestamp],
           threw |-> FALSE, id |-> ComposeId(g, timestamp, sequence)]

\* generate(); reading is Date.now() at its start, waited what _waitNextMillis returns
\* when the sequence wraps. The sequence is assigned before the clock test.
Generate(g, reading, waited) ==
  LET same == reading = g.lastTimestamp
      sequence == IF same THEN (g.sequence + 1) % (SNOWFLAKE_MAX_SEQUENCE + 1) ELSE 0
      timestamp == IF same /\ sequence = 0 THEN waited ELSE reading
  IN IF timestamp < g.lastTimestamp
     THEN [g |-> [g EXCEPT !.sequence = sequence], threw |-> TRUE, id |-> 0]
     ELSE [g |-> [g EXCEPT !.sequence = sequence, !.lastTimestamp = timestamp],
           threw |-> FALSE, id |-> ComposeId(g, timestamp, sequence)]

\* a generator that has just been constructed, with the clock at reading c
FreshGen(c) ==
  [g |-> NewGenerator(0, 0), clock |-> c, issued |-> {}, dup |-> FALSE, calls |-> 0,
   count |-> 0,
   last |-> [reading |-> 0, before |-> 0, threw |-> FALSE, waited |-> FALSE,
             timestamp |-> 0, countBefore |-> 0]]

\* a generator that has returned k + 1 ids, all within millisecond t
BurstGen(t, k) ==
  LET g0 == NewGenerator(0, 0)
  IN [FreshGen(t) EXCEPT !.g = [g0 EXCEPT !.sequence = k, !.lastTimestamp = t],
                         !.issued = {ComposeId(g0, t, i) : i \in 0..k},
                         !.count = k + 1]

NoCall == [op |-> "none"]

\* the RequestTracker constructor
NewTracker == [handlers |-> <<>>, timers |-> {}, invoked |-> <<>>, created |-> 0]

ExtInit == isClosed = FALSE /\ tracker = NewTracker

AuxInit == closed = {} /\ gen = FreshGen(0) /\ call = NoCall /\ ExtInit

Init == InitWith(Configs) /\ AuxInit

(***************************************************************************)
(* Sender                                                                  *)
(***************************************************************************)
\* a faulty chunk callback: success is reported one chunk early
OnResolve_early(ss, id) ==
  LET m == id.base IN
  IF id.chunk = NoChunk THEN [ss EXCEPT ![m].cb = Append(@, "ok")]
  ELSE LET completed == ss[m].completedChunks + 1 IN
       [ss EXCEPT ![m].completedChunks = completed,
                  ![m].cb = IF completed = ss[m].n - 1 /\ ~ss[m].hasError
                            THEN Append(@, "ok") ELSE @]

\* the callbacks _sendSingleMessage and _sendChunkedMessage register
OnResolve(ss, id) ==
  LET m == id.base IN
  IF id.chunk = NoChunk THEN [ss EXCEPT ![m].cb = Append(@, "ok")]
  ELSE LET completed == ss[m].completedChunks + 1 IN
       [ss EXCEPT ![m].completedChunks = completed,
                  ![m].cb = IF completed = ss[m].n /\ ~ss[m].hasError
                            THEN Append(@, "ok") ELSE @]

OnTimeout(ss, id) ==
  LET m == id.base IN
  IF id.chunk = NoChunk THEN [ss EXCEPT ![m].cb = Append(@, "timeout")]
  ELSE IF ~ss[m].hasError
  THEN [ss EXCEPT ![m].hasError = TRUE, ![m].cb = Append(@, "timeout")]
  ELSE ss

\* _sendMessageAsync: the final string, and its byte length
FinalString(c, m, p) ==
  LET message == Body(m, p.size)
      jsonString == JsonStringify(message)
      originalSize == ByteLength(jsonString)
      compressionResult ==
        IF ShouldCompress(c.compression, originalSize)
        THEN TryCompress(c.compression, jsonString, p.csize) ELSE NoResult
      bodyToSend == IF compressionResult # NoResult THEN compressionResult.data ELSE message
  IN IF bodyToSend.k = "str" THEN bodyToSend ELSE JsonStringify(bodyToSend)

FinalSize(c, m, p) == ByteLength(FinalString(c, m, p))

\* a faulty _sendMessageAsync: `<` for `<=` in the size test
Envelopes_strict(c, m, p) ==
  LET message == Body(m, p.size)
      jsonString == JsonStringify(message)
      originalSize == ByteLength(jsonString)
      compressionResult ==
        IF ShouldCompress(c.compression, originalSize)
        THEN TryCompress(c.compression, jsonString, p.csize) ELSE NoResult
      isCompressed == compressionResult # NoResult
      bodyToSend == IF isCompressed THEN compressionResult.data ELSE message
      finalString == IF bodyToSend.k = "str" THEN bodyToSend ELSE JsonStringify(bodyToSend)
      finalSize == ByteLength(finalString)
      codec == compressionResult.codec
      chunks == CreateChunks(c.chunkSize, finalString)
      total == Cardinality(DOMAIN chunks)
  IN IF finalSize < c.maxMessageSize
     THEN <<CreateEnvelope(MsgId(m), REQ, bodyToSend,
                           IF c.enableChecksum THEN CalculateChecksum(bodyToSend) ELSE Undefined,
                           codec, isCompressed, FALSE, NoChunk, NoChunk,
                           compressionResult.originalSize, compressionResult.compressedSize)>>
     ELSE [j \in 1..total |->
             CreateEnvelope(ChunkId(m, j - 1), REQ, chunks[j - 1],
                            IF c.enableChecksum THEN CalculateChecksum(chunks[j - 1]) ELSE Undefined,
                            codec, isCompressed /\ j - 1 = 0, TRUE, j - 1, total,
                            IF j - 1 = 0 THEN compressionResult.originalSize ELSE NoChunk,
                            IF j - 1 = 0 THEN compressionResult.compressedSize ELSE NoChunk)]

\* a faulty _sendChunkedMessage: every chunk is marked as compressed
Envelopes_everyChunk(c, m, p) ==
  LET message == Body(m, p.size)
      jsonString == JsonStringify(message)
      originalSize == ByteLength(jsonString)
      compressionResult ==
        IF ShouldCompress(c.compression, originalSize)
        THEN TryCompress(c.compression, jsonString, p.csize) ELSE NoResult
      isCompressed == compressionResult # NoResult
      bodyToSend == IF isCompressed THEN compressionResult.data ELSE message
      finalString == IF bodyToSend.k = "str" THEN bodyToSend ELSE JsonStringify(bodyToSend)
      finalSize == ByteLength(finalString)
      codec == compressionResult.codec
      chunks == CreateChunks(c.chunkSize, finalString)
      total == Cardinality(DOMAIN chunks)
  IN IF finalSize <= c.maxMessageSize
     THEN <<CreateEnvelope(MsgId(m), REQ, bodyToSend,
                           IF c.enableChecksum THEN CalculateChecksum(bodyToSend) ELSE Undefined,
                           codec, isCompressed, FALSE, NoChunk, NoChunk,
                           compressionResult.originalSize, compressionResult.compressedSize)>>
     ELSE [j \in 1..total |->
             CreateEnvelope(ChunkId(m, j - 1), REQ, chunks[j - 1],
                            IF c.enableChecksum THEN CalculateChecksum(chunks[j - 1]) ELSE Undefined,
                            codec, isCompressed, TRUE, j - 1, total,
                            IF j - 1 = 0 THEN compressionResult.originalSize ELSE NoChunk,
                            IF j - 1 = 0 THEN compressionResult.compressedSize ELSE NoChunk)]

\* _sendMessageAsync: the envelopes of one logical message, in the order sent
Envelopes(c, m, p) ==
  LET message == Body(m, p.size)
      jsonString == JsonStringify(message)
      originalSize == ByteLength(jsonString)
      compressionResult ==
        IF ShouldCompress(c.compression, originalSize)
        THEN TryCompress(c.compression, jsonString, p.csize) ELSE NoResult
      isCompressed == compressionResult # NoResult
      bodyToSend == IF isCompressed THEN compressionResult.data ELSE message
      finalString == IF bodyToSend.k = "str" THEN bodyToSend ELSE JsonStringify(bodyToSend)
      finalSize == ByteLength(finalString)
      codec == compressionResult.codec
      chunks == CreateChunks(c.chunkSize, finalString)
      total == Cardinality(DOMAIN chunks)
  IN IF finalSize <= c.maxMessageSize
     THEN <<CreateEnvelope(MsgId(m), REQ, bodyToSend,
                           IF c.enableChecksum THEN CalculateChecksum(bodyToSend) ELSE Undefined,
                           codec, isCompressed, FALSE, NoChunk, NoChunk,
                           compressionResult.originalSize, compressionResult.compressedSize)>>
     ELSE [j \in 1..total |->
             CreateEnvelope(ChunkId(m, j - 1), REQ, chunks[j - 1],
                            IF c.enableChecksum THEN CalculateChecksum(chunks[j - 1]) ELSE Undefined,
                            codec, isCompressed /\ j - 1 = 0, TRUE, j - 1, total,
                            IF j - 1 = 0 THEN compressionResult.originalSize ELSE NoChunk,
                            IF j - 1 = 0 THEN compressionResult.compressedSize ELSE NoChunk)]

RECURSIVE RegisterAll(_, _, _, _)
RegisterAll(hs, envs, requestTimeout, t) ==
  IF envs = <<>> THEN hs
  ELSE RegisterAll(Register(hs, Head(envs).id, requestTimeout, t), Tail(envs), requestTimeout, t)

\* sendMessage: _sendSingleMessage or _sendChunkedMessage; each envelope is registered
\* and handed to _sendRequestWithRetry
Send(p) ==
  /\ Len(sends) < MaxMsgs
  /\ now + cfg.tx.requestTimeout <= MaxTime
  /\ LET m == Len(sends) + 1
         envs == Envelopes(cfg.tx, m, p)
         ids == {envs[j].id : j \in DOMAIN envs}
     IN /\ sends' = Append(sends, [payload |-> p,
                                    n |-> IF envs[1].ci = NoChunk THEN 0 ELSE Len(envs),
                                    completedChunks |-> 0, hasError |-> FALSE, cb |-> <<>>])
        /\ handlers' = RegisterAll(handlers, envs, cfg.tx.requestTimeout, now)
        /\ net' = net \cup {envs[j] : j \in DOMAIN envs}
        /\ sendCb' = sendCb \cup ids
        /\ sentCount' = sentCount @@ [i \in ids |-> 1]
  /\ UNCHANGED <<now, cfg, dups, assemblies, rxCur, rxAwait, appLog, hist>>
  /\ UNCHANGED aux

\* a faulty retry test: the retry about to be made is counted as made
MayRetry_early(hs, id, maxRetries) ==
  /\ id \in DOMAIN hs
  /\ ~hs[id].ackReceived
  /\ ~(hs[id].retryCount + 1 >= maxRetries)

\* a faulty retry test: `>` for `>=`
MayRetry_offByOne(hs, id, maxRetries) ==
  /\ id \in DOMAIN hs
  /\ ~hs[id].ackReceived
  /\ ~(hs[id].retryCount > maxRetries)

\* the test of _sendRequestWithRetry, in the send completion and in the retry timer
MayRetry(hs, id, maxRetries) ==
  /\ id \in DOMAIN hs
  /\ ~hs[id].ackReceived
  /\ ~(hs[id].retryCount >= maxRetries)

\* what the send completion does when the datagram layer reports an error
AfterSendError(hs, id, maxRetries, t) == hs

\* the completion of socket.send in _sendRequestWithRetry
SendDone(id, err) ==
  /\ id \in sendCb
  /\ sendCb' = sendCb \ {id}
  /\ IF err
     THEN /\ handlers' = AfterSendError(handlers, id, cfg.tx.maxRetries, now + cfg.tx.retryInterval)
          /\ hist' = [hist EXCEPT !.sendFailed = @ \cup {id}]
     ELSE /\ handlers' = IF MayRetry(handlers, id, cfg.tx.maxRetries)
                         THEN SetRetryTimer(handlers, id, now + cfg.tx.retryInterval)
                         ELSE handlers
          /\ hist' = hist
  /\ UNCHANGED <<now, cfg, sends, sentCount, net, dups, assemblies, rxCur, rxAwait, appLog>>
  /\ UNCHANGED aux

\* the envelope of a REQ id, as first sent
EnvelopeOf(id) ==
  LET envs == Envelopes(cfg.tx, id.base, sends[id.base].payload)
  IN envs[IF id.chunk = NoChunk THEN 1 ELSE id.chunk + 1]

\* the retry timer of _sendRequestWithRetry fires
RetryFire(id) ==
  /\ id \in DOMAIN handlers
  /\ handlers[id].retryTimer # NoTimer
  /\ handlers[id].retryTimer <= now
  /\ IF MayRetry(handlers, id, cfg.tx.maxRetries)
     THEN LET hs == IncrementRetry(handlers, id)
          IN /\ handlers' = [hs EXCEPT ![id].retryTimer = NoTimer]
             /\ net' = net \cup {[EnvelopeOf(id) EXCEPT !.retryCount = hs[id].retryCount]}
             /\ sendCb' = sendCb \cup {id}
             /\ sentCount' = [sentCount EXCEPT ![id] = @ + 1]
             /\ hist' = [hist EXCEPT !.sendFailed = @ \ {id}]
     ELSE /\ handlers' = [handlers EXCEPT ![id].retryTimer = NoTimer]
          /\ UNCHANGED <<net, sendCb, sentCount, hist>>
  /\ UNCHANGED <<now, cfg, sends, dups, assemblies, rxCur, rxAwait, appLog>>
  /\ UNCHANGED aux

\* the timeout timer armed by register fires
TimeoutFire(id) ==
  /\ id \in DOMAIN handlers
  /\ handlers[id].timeoutId <= now
  /\ handlers' = Remove(handlers, id)
  /\ sends' = OnTimeout(sends, id)
  /\ hist' = [hist EXCEPT !.timedOut = @ \cup {id}]
  /\ UNCHANGED <<now, cfg, sendCb, sentCount, net, dups, assemblies, rxCur, rxAwait, appLog>>
  /\ UNCHANGED aux

\* a faulty invokeAndRemove: the callback runs, the entry and its timers stay
InvokeAndRemove_keeps(hs, id) == hs

\* invokeAndRemove: the callback runs, then the entry is deleted
InvokeAndRemove(hs, id) == Remove(hs, id)

\* _handleAcknowledgement
HandleAcknowledgement(ack) ==
  IF ack.id \in DOMAIN handlers
  THEN /\ sends' = OnResolve(sends, ack.id)
       /\ handlers' = InvokeAndRemove(handlers, ack.id)
       /\ hist' = [hist EXCEPT !.acked = @ \cup {ack.id}]
  ELSE UNCHANGED <<sends, handlers, hist>>

\* the cleanup timer of the sender: cleanupOldRequests(REQUEST_CLEANUP_AGE)
TxCleanupTick ==
  LET old == OldRequests(handlers, REQUEST_CLEANUP_AGE, now)
  IN /\ old # {}
     /\ handlers' = [i \in DOMAIN handlers \ old |-> handlers[i]]
     /\ hist' = [hist EXCEPT !.swept = @ \cup old]
     /\ UNCHANGED <<now, cfg, sends, sendCb, sentCount, net, dups, assemblies, rxCur,
                    rxAwait, appLog>>
     /\ UNCHANGED aux

(***************************************************************************)
(* Receiver                                                                *)
(***************************************************************************)
Idle == [req |-> AckEnvelope(MsgId(0)), pc |-> <<>>]

\* a faulty emitMessage: without `message || {}`
EmitMessage_noDefault(log, base, data) ==
  LET message == JsonParse(data)
  IN IF message = Junk THEN log ELSE Append(log, [for |-> base, value |-> message])

\* emitMessage: JSON.parse, `message || {}`, emit DATA; a SyntaxError throws
\* InvalidJSONFormatException, which handleData logs
EmitMessage(log, base, data) ==
  LET message == JsonParse(data)
  IN IF message = Junk THEN log
     ELSE Append(log, [for |-> base, value |-> IF message = Null THEN EmptyObj ELSE message])

\* a faulty _handleRequest: the work is done before the acknowledgement
HandleRequestSteps_workFirst(enableChecksum, req) ==
  IF enableChecksum /\ req.checksum # Undefined /\ CalculateChecksum(req.body) # req.checksum
  THEN <<>>
  ELSE <<"work", "ack">>

\* a faulty _handleRequest: the checksum is not compared
HandleRequestSteps_noChecksum(enableChecksum, req) == <<"ack", "work">>

\* what _handleRequest does with a REQ, in order: nothing when the checksum fails
HandleRequestSteps(enableChecksum, req) ==
  IF enableChecksum /\ req.checksum # Undefined /\ CalculateChecksum(req.body) # req.checksum
  THEN <<>>
  ELSE <<"ack", "work">>

\* what _handleSingleRequest and _handleChunkedRequest do once tryDecompress has returned
AfterDecompress(log, base, decompressed) == EmitMessage(log, base, JsonStringify(decompressed))

\* `await tryDecompress(data, codec)`: a codec that is not registered answers null at
\* once; a registered one is awaited
Decompress(st, base, data, codec) ==
  IF codec \in cfg.rx.codecs
  THEN [st EXCEPT !.rxAwait = Append(@, [for |-> base, data |-> data, codec |-> codec])]
  ELSE [st EXCEPT !.appLog =
          AfterDecompress(@, base, TryDecompress(cfg.rx.codecs, data, codec))]

\* _handleSingleRequest
HandleSingleRequest(st, req) ==
  LET flags == DecodeFlags(req.flags)
  IN IF flags.codec # NONE
     THEN Decompress(st, SplitBase(req.id), req.body, flags.codec)
     ELSE [st EXCEPT !.appLog = EmitMessage(@, SplitBase(req.id), JsonStringify(req.body))]

\* _handleChunkedRequest
HandleChunkedRequest(st, req) ==
  LET baseId == SplitBase(req.id)
      flags == DecodeFlags(req.flags)
      as1 == IF baseId \notin DOMAIN st.assemblies
             THEN InitAssembly(st.assemblies, baseId, req.ct, flags.codec, now)
             ELSE st.assemblies
      as2 == AddChunk(as1, baseId, req.ci, req.body)
      assembled == GetAssembledData(as2, baseId)
      finalData == Utf8String(assembled)
      st2 == [st EXCEPT !.assemblies = as2]
      st3 == [st EXCEPT !.assemblies = RemoveAssembly(as2, baseId)]
  IN IF ~IsComplete(as2, baseId) \/ assembled = Null THEN st2
     ELSE IF as2[baseId].compressionCodec # NONE
     THEN Decompress(st3, baseId, finalData, as2[baseId].compressionCodec)
     ELSE [st3 EXCEPT !.appLog = EmitMessage(@, baseId, finalData)]

\* the part of _handleRequest after the acknowledgement
HandleWork(st, req) ==
  IF req.ci # NoChunk /\ req.ct # NoChunk
  THEN HandleChunkedRequest(st, req)
  ELSE HandleSingleRequest(st, req)

RxState == [assemblies |-> assemblies, rxAwait |-> rxAwait, appLog |-> appLog]

\* one step of _handleRequest on req; base is the channel without the datagram taken
Step(step, req, base) ==
  IF step = "ack"
  THEN /\ net' = base \cup {AckEnvelope(req.id)}
       /\ hist' = [hist EXCEPT !.acks = Inc(@, req.id)]
       /\ UNCHANGED <<assemblies, rxAwait, appLog>>
  ELSE LET st == HandleWork(RxState, req)
       IN /\ net' = base
          /\ assemblies' = st.assemblies
          /\ rxAwait' = st.rxAwait
          /\ appLog' = st.appLog
          /\ hist' = [hist EXCEPT !.works = Inc(@, req.id)]

\* the channel hands datagram d over; keep: the channel also keeps a copy of it
Taken(d, keep) == IF keep THEN net ELSE net \ {d}

\* handleData / _processIncomingMessage at the receiver, for a REQ
RecvReq(d, keep) ==
  /\ d \in net
  /\ DecodeFlags(d.flags).type = REQ
  /\ rxCur.pc = <<>>
  /\ keep => dups < MaxDup
  /\ dups' = IF keep THEN dups + 1 ELSE dups
  /\ LET steps == HandleRequestSteps(cfg.rx.enableChecksum, d)
     IN IF steps = <<>>
        THEN /\ net' = Taken(d, keep)
             /\ hist' = [hist EXCEPT !.dropped = @ \cup {d.id}]
             /\ UNCHANGED <<assemblies, rxCur, rxAwait, appLog>>
        ELSE /\ Step(Head(steps), d, Taken(d, keep))
             /\ rxCur' = [req |-> d, pc |-> Tail(steps)]
  /\ UNCHANGED <<now, cfg, sends, handlers, sendCb, sentCount>>
  /\ UNCHANGED aux

\* _handleRequest goes on
ContinueReq ==
  /\ rxCur.pc # <<>>
  /\ Step(Head(rxCur.pc), rxCur.req, net)
  /\ rxCur' = IF Tail(rxCur.pc) = <<>> THEN Idle ELSE [rxCur EXCEPT !.pc = Tail(@)]
  /\ UNCHANGED <<now, cfg, sends, handlers, sendCb, sentCount, dups>>
  /\ UNCHANGED aux

\* an awaited tryDecompress returns
DecompressDone(j) ==
  /\ rxCur.pc = <<>>
  /\ j \in DOMAIN rxAwait
  /\ rxAwait' = [i \in 1..(Len(rxAwait) - 1) |-> IF i < j THEN rxAwait[i] ELSE rxAwait[i + 1]]
  /\ appLog' = AfterDecompress(appLog, rxAwait[j].for,
                               TryDecompress(cfg.rx.codecs, rxAwait[j].data, rxAwait[j].codec))
  /\ UNCHANGED <<now, cfg, sends, handlers, sendCb, sentCount, net, dups, assemblies,
                 rxCur, hist>>
  /\ UNCHANGED aux

\* the cleanup timer of the receiver: cleanupStaleAssemblies()
RxCleanupTick ==
  /\ rxCur.pc = <<>>
  /\ assemblies' = CleanupStaleAssemblies(assemblies, cfg.rx.reassemblyTimeout, now)
  /\ assemblies' # assemblies
  /\ UNCHANGED <<now, cfg, sends, handlers, sendCb, sentCount, net, dups, rxCur, rxAwait,
                 appLog, hist>>
  /\ UNCHANGED aux

(***************************************************************************)
(* Channel, sender's receive path, clock                                   *)
(***************************************************************************)
\* handleData / _processIncomingMessage at the sender, for an ACK
RecvAck(d, keep) ==
  /\ d \in net
  /\ DecodeFlags(d.flags).type = ACK
  /\ keep => dups < MaxDup
  /\ dups' = IF keep THEN dups + 1 ELSE dups
  /\ net' = Taken(d, keep)
  /\ HandleAcknowledgement(d)
  /\ UNCHANGED <<now, cfg, sendCb, sentCount, assemblies, rxCur, rxAwait, appLog>>
  /\ UNCHANGED aux

\* the channel loses a datagram
Lose(d) ==
  /\ d \in net
  /\ net' = net \ {d}
  /\ UNCHANGED <<now, cfg, sends, handlers, sendCb, sentCount, dups, assemblies, rxCur,
                 rxAwait, appLog, hist>>
  /\ UNCHANGED aux

\* no timer is due
NoTimerDue ==
  \A id \in DOMAIN handlers :
    /\ handlers[id].timeoutId > now
    /\ handlers[id].retryTimer = NoTimer \/ handlers[id].retryTimer > now

Tick ==
  /\ now + TickMs <= MaxTime
  /\ NoTimerDue
  /\ rxCur.pc = <<>>
  /\ now' = now + TickMs
  /\ UNCHANGED <<cfg, sends, handlers, sendCb, sentCount, net, dups, assemblies, rxCur,
                 rxAwait, appLog, hist>>
  /\ UNCHANGED aux

Next ==
  \/ \E p \in Payloads : Send(p)
  \/ \E id \in sendCb, err \in BOOLEAN : SendDone(id, err)
  \/ \E id \in DOMAIN handlers : RetryFire(id)
  \/ \E id \in DOMAIN handlers : TimeoutFire(id)
  \/ TxCleanupTick
  \/ \E d \in net, keep \in BOOLEAN : RecvReq(d, keep)
  \/ ContinueReq
  \/ \E j \in DOMAIN rxAwait : DecompressDone(j)
  \/ RxCleanupTick
  \/ \E d \in net, keep \in BOOLEAN : RecvAck(d, keep)
  \/ \E d \in net : Lose(d)
  \/ Tick

Spec == Init /\ [][Next]_vars

(***************************************************************************)
(* A channel that also damages datagrams: the body of a REQ in flight is   *)
(* replaced by another value, its checksum is not.                         *)
(***************************************************************************)
MaxCorrupt == 1   \* datagrams the channel damages

Forged == Val("obj", 0, NONE, 0, 1, 1, 1)

Corrupt(d) ==
  /\ d \in net
  /\ DecodeFlags(d.flags).type = REQ
  /\ Cardinality(hist.dropped) + Cardinality({e \in net : e.body = Forged}) < MaxCorrupt
  /\ net' = (net \ {d}) \cup {[d EXCEPT !.body = Forged]}
  /\ UNCHANGED <<now, cfg, sends, handlers, sendCb, sentCount, dups, assemblies, rxCur,
                 rxAwait, appLog, hist>>
  /\ UNCHANGED aux

InitCorrupt == InitWith(ConfigsOf({TRUE}, {{GZIP, ZSTD}})) /\ AuxInit

NextCorrupt ==
  \/ Next
  \/ \E d \in net : Corrupt(d)

SpecCorrupt == InitCorrupt /\ [][NextCorrupt]_vars

(***************************************************************************)
(* The id generator on its own: generate() calls under a clock that may    *)
(* stand still, advance or step backwards between calls.                   *)
(***************************************************************************)
\* generate() is called
GenGenerate ==
  /\ gen.calls < MaxCalls
  /\ \E waited \in 0..MaxClock :
       LET wraps == /\ gen.clock = gen.g.lastTimestamp
                    /\ (gen.g.sequence + 1) % (SNOWFLAKE_MAX_SEQUENCE + 1) = 0
           r == Generate(gen.g, gen.clock, waited)
       IN /\ IF wraps THEN waited > gen.g.lastTimestamp ELSE waited = gen.clock
          /\ gen' = [g |-> r.g,
                     clock |-> waited,
                     issued |-> IF r.threw THEN gen.issued ELSE gen.issued \cup {r.id},
                     dup |-> gen.dup \/ (~r.threw /\ r.id \in gen.issued),
                     calls |-> gen.calls + 1,
                     count |-> IF r.threw THEN gen.count
                               ELSE IF r.g.lastTimestamp = gen.g.lastTimestamp
                               THEN gen.count + 1 ELSE 1,
                     last |-> [reading |-> gen.clock, before |-> gen.g.lastTimestamp,
                               threw |-> r.threw, waited |-> wraps,
                               timestamp |-> r.g.lastTimestamp,
                               countBefore |-> gen.count]]
  /\ UNCHANGED <<now, cfg, sends, handlers, sendCb, sentCount, net, dups, assemblies, rxCur,
                 rxAwait, appLog, hist, closed, call>>
  /\ UNCHANGED ext

\* the system clock is set to t
ClockSet(t) ==
  /\ t # gen.clock
  /\ gen' = [gen EXCEPT !.clock = t]
  /\ UNCHANGED <<now, cfg, sends, handlers, sendCb, sentCount, net, dups, assemblies, rxCur,
                 rxAwait, appLog, hist, closed, call>>
  /\ UNCHANGED ext

InitGen ==
  /\ ExtInit
  /\ InitWith(ConfigsOf({TRUE}, {{GZIP, ZSTD}}))
  /\ closed = {}
  /\ call = NoCall
  /\ gen \in {FreshGen(c) : c \in 0..MaxClock}
            \cup {[BurstGen(t, k) EXCEPT !.clock = c] :
                    t \in 0..MaxClock, c \in 0..MaxClock,
                    k \in {SNOWFLAKE_MAX_SEQUENCE - 1, SNOWFLAKE_MAX_SEQUENCE}}

NextGen ==
  \/ GenGenerate
  \/ \E t \in 0..MaxClock : ClockSet(t)

SpecGen == InitGen /\ [][NextGen]_vars

(***************************************************************************)
(* encodeFlags and decodeFlags on their own.                               *)
(***************************************************************************)
FlagCall(type, codec, isCompressed, isChunked, done, flags) ==
  [op |-> "flags", type |-> type, codec |-> codec, isCompressed |-> isCompressed,
   isChunked |-> isChunked, done |-> done, flags |-> flags, decoded |-> DecodeFlags(flags)]

InitFlags ==
  /\ ExtInit
  /\ InitWith(ConfigsOf({TRUE}, {{GZIP, ZSTD}}))
  /\ closed = {}
  /\ gen = FreshGen(0)
  /\ call \in {FlagCall(t, c, z, k, FALSE, 0) :
                 t \in {REQ, ACK, RES}, c \in {NONE, GZIP, SNAPPY, LZ4, ZSTD},
                 z \in BOOLEAN, k \in BOOLEAN}

\* decodeFlags(encodeFlags(type, codec, isCompressed, isChunked))
ApplyFlags ==
  /\ call.op = "flags"
  /\ ~call.done
  /\ call' = FlagCall(call.type, call.codec, call.isCompressed, call.isChunked, TRUE,
                      EncodeFlags(call.type, call.codec, call.isCompressed, call.isChunked))
  /\ UNCHANGED <<now, cfg, sends, handlers, sendCb, sentCount, net, dups, assemblies, rxCur,
                 rxAwait, appLog, hist, closed, gen>>
  /\ UNCHANGED ext

SpecFlags == InitFlags /\ [][ApplyFlags]_vars

(***************************************************************************)
(* configure and the choice between the single and the chunked send.       *)
(***************************************************************************)
\* an option that is not given
Absent == NoChunk

\* a faulty _validateOptions: the limits themselves are rejected
ValidateOptions_strict(c) ==
  c.maxMessageSize <= MIN_MESSAGE_SIZE \/ c.maxMessageSize >= MAX_MESSAGE_SIZE

\* _validateOptions: TRUE when it throws
ValidateOptions(c) ==
  c.maxMessageSize < MIN_MESSAGE_SIZE \/ c.maxMessageSize > MAX_MESSAGE_SIZE

\* configure(options): the ChunkingHandler. A new one is built when chunkSize or
\* reassemblyTimeout is given; the one not given gets its default
ConfigureChunking(h, options) ==
  IF options.chunkSize # Absent \/ options.reassemblyTimeout # Absent
  THEN [chunkSize |-> IF options.chunkSize # Absent
                      THEN options.chunkSize ELSE DEFAULT_CHUNK_SIZE,
        reassemblyTimeout |-> IF options.reassemblyTimeout # Absent
                              THEN options.reassemblyTimeout ELSE DEFAULT_REASSEMBLY_TIMEOUT]
  ELSE h

\* configure(options), for the options maxMessageSize, maxRetries, chunkSize and
\* reassemblyTimeout: _config is assigned before it is validated, the ChunkingHandler is
\* replaced after
Configure(c, h, options) ==
  LET c1 == [c EXCEPT !.maxMessageSize =
                        IF options.maxMessageSize # Absent THEN options.maxMessageSize ELSE @,
                      !.maxRetries =
                        IF options.maxRetries # Absent THEN options.maxRetries ELSE @]
      threw == ValidateOptions(c1)
      h1 == IF threw THEN h ELSE ConfigureChunking(h, options)
  IN [config |-> [c1 EXCEPT !.chunkSize = h1.chunkSize], chunking |-> h1, threw |-> threw]

\* the options tried
OptionsTried ==
  [maxMessageSize : {Absent, MIN_MESSAGE_SIZE - 1, MIN_MESSAGE_SIZE, MIN_MESSAGE_SIZE + 1,
                     MAX_MESSAGE_SIZE, MAX_MESSAGE_SIZE + 1},
   maxRetries : {Absent, MaxRetries + 1},
   chunkSize : {Absent, ChunkSize, MIN_MESSAGE_SIZE, MIN_MESSAGE_SIZE + 1, DEFAULT_CHUNK_SIZE,
                MAX_MESSAGE_SIZE \div 2},
   reassemblyTimeout : {Absent, TickMs}]

\* configure(options) is called on an engine whose chunking handler has the sender's
\* chunk size and the receiver's reassembly timeout; a new ChunkingHandler starts with
\* no assembly
DoConfigure(options) ==
  /\ LET r == Configure(cfg.tx, [chunkSize |-> cfg.tx.chunkSize,
                                 reassemblyTimeout |-> cfg.rx.reassemblyTimeout], options)
         replaced == /\ ~r.threw
                     /\ options.chunkSize # Absent \/ options.reassemblyTimeout # Absent
     IN /\ cfg' = [cfg EXCEPT !.tx = r.config,
                              !.rx.reassemblyTimeout = r.chunking.reassemblyTimeout]
        /\ assemblies' = IF replaced THEN <<>> ELSE assemblies
        /\ call' = [op |-> "configure", options |-> options,
                    before |-> cfg.tx.maxMessageSize, threw |-> r.threw]
  /\ UNCHANGED <<now, sends, handlers, sendCb, sentCount, net, dups, rxCur,
                 rxAwait, appLog, hist, closed, gen>>
  /\ UNCHANGED ext

\* the payloads tried under maxMessageSize max: JSON text around max, and codec output
\* whose base64 text is around max (or as long as the JSON text: no reduction)
PayloadsAround(max) ==
  {p \in [size : {max - 1, max, max + 1, 2 * max},
          csize : {3 * (max \div 4) - 3, 3 * (max \div 4), 3 * (max \div 4) + 1,
                   max - 1, max, max + 1, 2 * max}] :
     p.size > 0 /\ p.csize > 0 /\ p.csize <= p.size}

\* the most chunks of one message
MaxPlan == 8

\* _sendMessageAsync on payload p: what is registered and sent
DoPlan(p) ==
  /\ p \in PayloadsAround(cfg.tx.maxMessageSize)
  /\ CeilDiv(FinalSize(cfg.tx, 1, p), cfg.tx.chunkSize) <= MaxPlan
  /\ LET envs == Envelopes(cfg.tx, 1, p)
         hs == RegisterAll(<<>>, envs, cfg.tx.requestTimeout, now)
     IN call' = [op |-> "send", payload |-> p,
                 finalSize |-> FinalSize(cfg.tx, 1, p),
                 compressed |-> DecodeFlags(envs[1].flags).isCompressed,
                 count |-> Len(envs),
                 plain |-> \A j \in DOMAIN envs : envs[j].ci = NoChunk /\ envs[j].ct = NoChunk,
                 chunked |-> \A j \in DOMAIN envs : envs[j].ci = j - 1 /\ envs[j].ct = Len(envs),
                 handles |-> Cardinality(DOMAIN hs)]
  /\ UNCHANGED <<now, cfg, sends, handlers, sendCb, sentCount, net, dups, assemblies, rxCur,
                 rxAwait, appLog, hist, closed, gen>>
  /\ UNCHANGED ext

InitSize == InitWith(ConfigsOf({TRUE}, {{GZIP, ZSTD}})) /\ AuxInit

NextSize ==
  \/ \E options \in OptionsTried : DoConfigure(options)
  \/ \E p \in PayloadsAround(cfg.tx.maxMessageSize) : DoPlan(p)

SpecSize == InitSize /\ [][NextSize]_vars

(***************************************************************************)
(* createChunks, and the chunks of one message passed to initAssembly and  *)
(* addChunk in any order, some of them more than once.                     *)
(***************************************************************************)
\* the most addChunk calls for one message
MaxFeeds == 9

\* the chunk sizes tried
ChunkSizes == {ChunkSize \div 2, ChunkSize, MIN_MESSAGE_SIZE}

\* the chunk REQs of payload p wait to be handed over
ChunkCall(c, p) ==
  [op |-> "chunks", data |-> FinalString(c, 1, p), envs |-> Envelopes(c, 1, p),
   seen |-> {}, fed |-> 0]

InitChunk ==
  /\ ExtInit
  /\ InitWith({[c EXCEPT !.tx.chunkSize = cs] :
                 c \in ConfigsOf({TRUE}, {{GZIP, ZSTD}}), cs \in ChunkSizes})
  /\ closed = {}
  /\ gen = FreshGen(0)
  /\ call \in {ChunkCall(cfg.tx, p) :
                 p \in {q \in PayloadsAround(cfg.tx.maxMessageSize) :
                          FinalSize(cfg.tx, 1, q) > cfg.tx.maxMessageSize}}

\* _handleChunkedRequest up to addChunk, on chunk REQ j of the message
FeedChunk(j) ==
  /\ call.op = "chunks"
  /\ call.fed < MaxFeeds
  /\ j \in DOMAIN call.envs
  /\ LET req == call.envs[j]
         baseId == SplitBase(req.id)
         flags == DecodeFlags(req.flags)
         as1 == IF baseId \notin DOMAIN assemblies
                THEN InitAssembly(assemblies, baseId, req.ct, flags.codec, now)
                ELSE assemblies
     IN assemblies' = AddChunk(as1, baseId, req.ci, req.body)
  /\ call' = [call EXCEPT !.seen = @ \cup {j}, !.fed = @ + 1]
  /\ UNCHANGED <<now, cfg, sends, handlers, sendCb, sentCount, net, dups, rxCur,
                 rxAwait, appLog, hist, closed, gen>>
  /\ UNCHANGED ext

NextChunk == \E j \in DOMAIN call.envs : FeedChunk(j)

SpecChunk == InitChunk /\ [][NextChunk]_vars

(***************************************************************************)
(* The receiver under chunk REQs of a peer that need not be this sender:   *)
(* chunks with a null body, a body that is no string, or bytes that are no *)
(* JSON text, all without checksum.                                        *)
(***************************************************************************)
\* the most datagrams of the peer
MaxInject == 3

\* a chunk REQ as the peer sends it: no checksum
PeerChunk(m, ci, ct, body, codec) ==
  CreateEnvelope(ChunkId(m, ci), REQ, body, Undefined, codec, FALSE, TRUE, ci, ct,
                 NoChunk, NoChunk)

\* the chunk REQs of the peer: the two chunks of message 1 (JSON text) and of message 3
\* (compressed), each also with a null body; chunk 0 of message 1 with an object as
\* body; the only chunk of message 2, whose bytes are a JSON text cut short; a chunk
\* of message 1 whose index is outside the assembly
PeerChunks(c) ==
  LET plain == Envelopes(c, 1, [size |-> c.maxMessageSize + 1, csize |-> c.maxMessageSize + 1])
      packed == Envelopes(c, 3, [size |-> 2 * c.maxMessageSize,
                                 csize |-> 3 * (c.maxMessageSize \div 4) + 1])
      cut == ToBase64(Subarray(Utf8Bytes(JsonStringify(Body(2, 2))), 0, 1))
  IN {[e EXCEPT !.checksum = Undefined] : e \in {plain[1], plain[2], packed[1], packed[2]}}
     \cup {[e EXCEPT !.checksum = Undefined, !.body = Null] :
             e \in {plain[1], plain[2], packed[1], packed[2]}}
     \cup {PeerChunk(1, 0, 2, Forged, NONE), PeerChunk(2, 0, 1, cut, NONE),
           PeerChunk(1, 2, 2, plain[1].body, NONE)}

\* a datagram of the peer reaches the socket
InjectChunk(d) ==
  /\ call.op \in {"none", "inject"}
  /\ (IF call.op = "none" THEN 0 ELSE call.n) < MaxInject
  /\ d \in PeerChunks(cfg.tx)
  /\ d \notin net
  /\ net' = net \cup {d}
  /\ call' = [op |-> "inject", n |-> (IF call.op = "none" THEN 0 ELSE call.n) + 1]
  /\ UNCHANGED <<now, cfg, sends, handlers, sendCb, sentCount, dups, assemblies, rxCur,
                 rxAwait, appLog, hist, closed, gen>>
  /\ UNCHANGED ext

InitAsm == InitWith(ConfigsOf({TRUE}, {{GZIP, ZSTD}})) /\ AuxInit

NextAsm ==
  \/ \E d \in PeerChunks(cfg.tx) : InjectChunk(d)
  \/ \E d \in net : RecvReq(d, FALSE)
  \/ ContinueReq
  \/ \E j \in DOMAIN rxAwait : DecompressDone(j)

SpecAsm == InitAsm /\ [][NextAsm]_vars

(***************************************************************************)
(* Datagrams of a peer that are no REQ, ACK or RES.  A datagram is its     *)
(* text: valid JSON or not, the kind of value the text denotes, and for an *)
(* object the kind of its id and flags members.                            *)
(***************************************************************************)
\* the most datagrams of this sort
MaxPeer == 2

\* the type bits that are no MessageType
NoType == 3

PeerDatagram(valid, kind, id, flagsType, flags) ==
  [valid |-> valid, kind |-> kind, id |-> id, flagsType |-> flagsType, flags |-> flags]

PeerDatagrams ==
  {PeerDatagram(FALSE, "text", "absent", "absent", 0)}
  \cup {PeerDatagram(TRUE, k, "absent", "absent", 0) :
          k \in {"null", "zero", "number", "string", "array"}}
  \cup {PeerDatagram(TRUE, "object", i, f, 0) :
          i \in {"absent", "number"}, f \in {"absent", "string"}}
  \cup {PeerDatagram(TRUE, "object", "string", f, 0) : f \in {"absent", "string"}}
  \cup {PeerDatagram(TRUE, "object", i, "number", EncodeFlags(t, NONE, FALSE, FALSE)) :
          i \in {"absent", "number"}, t \in {REQ, ACK}}
  \cup {PeerDatagram(TRUE, "object", "string", "number", NoType * (2 ^ TYPE_SHIFT) + x) :
          x \in {0, CHUNKED + ZSTD}}

\* isValidEnvelope
IsValidEnvelope(obj) ==
  obj.kind \in {"object", "array"} /\ obj.id = "string" /\ obj.flagsType = "number"

\* parse: FALSE stands for null
Parse(d) == d.valid /\ IsValidEnvelope(d)

\* JSON.parse(data) followed by `message || {}`
OrEmpty(d) == IF d.kind \in {"null", "zero"} THEN EmptyObj ELSE d

\* _processIncomingMessage on datagram d, which is no REQ, ACK or RES: emitMessage
\* throws on a text that is not JSON, and handleData logs the error
RecvPeer(d) ==
  /\ call.op \in {"none", "peer"}
  /\ (IF call.op = "none" THEN 0 ELSE call.n) < MaxPeer
  /\ rxCur.pc = <<>>
  /\ Parse(d) => DecodeFlags(d.flags).type \notin {REQ, ACK, RES}
  /\ appLog' = IF d.valid THEN Append(appLog, [for |-> NoChunk, value |-> OrEmpty(d)])
               ELSE appLog
  /\ call' = [op |-> "peer", n |-> (IF call.op = "none" THEN 0 ELSE call.n) + 1, d |-> d]
  /\ UNCHANGED <<now, cfg, sends, handlers, sendCb, sentCount, net, dups, assemblies, rxCur,
                 rxAwait, hist, closed, gen>>
  /\ UNCHANGED ext

InitPass == InitWith(ConfigsOf({TRUE}, {{GZIP, ZSTD}})) /\ AuxInit

NextPass ==
  \/ \E d \in PeerDatagrams : RecvPeer(d)
  \/ \E p \in Payloads : Send(p)
  \/ \E id \in sendCb : SendDone(id, FALSE)
  \/ \E d \in net : RecvReq(d, FALSE)
  \/ ContinueReq
  \/ \E j \in DOMAIN rxAwait : DecompressDone(j)
  \/ \E d \in net : RecvAck(d, FALSE)

SpecPass == InitPass /\ [][NextPass]_vars

(***************************************************************************)
(* close().  The sender's engine holds the tracker, the receiver's the     *)
(* assemblies; a socket that is closed receives no datagram, while send    *)
(* completions, timers that were not cleared and awaited codec calls still *)
(* run.                                                                    *)
(***************************************************************************)
IsClosed(engine) == \E c \in closed : c.engine = engine

\* close() on one engine: _stopCleanupTimer, RequestTracker.clear,
\* ChunkingHandler.clear, super.close()
Close(engine) ==
  /\ ~IsClosed(engine)
  /\ rxCur.pc = <<>>
  /\ closed' = closed \cup {[engine |-> engine, at |-> now,
                             outstanding |-> IF engine = "tx" THEN DOMAIN handlers ELSE {},
                             partial |-> IF engine = "rx" THEN DOMAIN assemblies ELSE {}]}
  /\ handlers' = IF engine = "tx" THEN Clear(handlers) ELSE handlers
  /\ assemblies' = IF engine = "rx" THEN ClearAssemblies(assemblies) ELSE assemblies
  /\ UNCHANGED <<now, cfg, sends, sendCb, sentCount, net, dups, rxCur, rxAwait, appLog,
                 hist, gen, call>>
  /\ UNCHANGED ext

InitClose == InitWith(ConfigsOf({TRUE}, {{GZIP, ZSTD}})) /\ AuxInit

NextClose ==
  \/ \E engine \in {"tx", "rx"} : Close(engine)
  \/ ~IsClosed("tx") /\ \E p \in Payloads : Send(p)
  \/ ~IsClosed("tx") /\ \E d \in net : RecvAck(d, FALSE)
  \/ ~IsClosed("tx") /\ TxCleanupTick
  \/ \E id \in sendCb, err \in BOOLEAN : SendDone(id, err)
  \/ \E id \in DOMAIN handlers : RetryFire(id)
  \/ \E id \in DOMAIN handlers : TimeoutFire(id)
  \/ ~IsClosed("rx") /\ \E d \in net : RecvReq(d, FALSE)
  \/ ~IsClosed("rx") /\ RxCleanupTick
  \/ ContinueReq
  \/ \E j \in DOMAIN rxAwait : DecompressDone(j)
  \/ \E d \in net : Lose(d)
  \/ Tick

SpecClose == InitClose /\ [][NextClose]_vars

(***************************************************************************)
(* UdpSocket.sendMessage and the socket's 'close' event.  close() closes   *)
(* the datagram socket at once; isClosed is set by the handler of the      *)
(* 'close' event, which the socket emits afterwards.                       *)
(***************************************************************************)
\* the handler of the 'close' event
CloseEvent ==
  /\ IsClosed("tx")
  /\ ~isClosed
  /\ isClosed' = TRUE
  /\ UNCHANGED <<now, cfg, sends, handlers, sendCb, sentCount, net, dups, assemblies, rxCur,
                 rxAwait, appLog, hist, closed, gen, call, tracker>>

\* sendMessage when isClosed is set: the completion gets an error, handleSend is not called
SendMessageClosed(p) ==
  /\ sends' = Append(sends, [payload |-> p, n |-> 0, completedChunks |-> 0,
                              hasError |-> FALSE, cb |-> <<"closed">>])
  /\ UNCHANGED <<now, cfg, handlers, sendCb, sentCount, net, dups, assemblies, rxCur,
                 rxAwait, appLog, hist>>
  /\ UNCHANGED aux

\* handleSend on a socket that close() has closed: the first envelope is registered, then
\* socket.send throws and the catch of _sendMessageAsync hands the error to the completion
HandleSendThrows(p) ==
  /\ now + cfg.tx.requestTimeout <= MaxTime
  /\ LET m == Len(sends) + 1
         envs == Envelopes(cfg.tx, m, p)
     IN /\ sends' = Append(sends, [payload |-> p,
                                    n |-> IF envs[1].ci = NoChunk THEN 0 ELSE Len(envs),
                                    completedChunks |-> 0, hasError |-> FALSE,
                                    cb |-> <<"error">>])
        /\ handlers' = Register(handlers, envs[1].id, cfg.tx.requestTimeout, now)
  /\ UNCHANGED <<now, cfg, sendCb, sentCount, net, dups, assemblies, rxCur, rxAwait, appLog,
                 hist>>
  /\ UNCHANGED aux

\* UdpSocket.sendMessage
SendMessage(p) ==
  /\ Len(sends) < MaxMsgs
  /\ IF isClosed THEN SendMessageClosed(p)
     ELSE IF IsClosed("tx") THEN HandleSendThrows(p)
     ELSE Send(p)

NextShut ==
  \/ \E p \in Payloads : SendMessage(p)
  \/ Close("tx")
  \/ CloseEvent
  \/ \E id \in sendCb, err \in BOOLEAN : SendDone(id, err)
  \/ \E id \in DOMAIN handlers : RetryFire(id)
  \/ \E id \in DOMAIN handlers : TimeoutFire(id)
  \/ ~IsClosed("tx") /\ \E d \in net : RecvAck(d, FALSE)
  \/ \E d \in net : RecvReq(d, FALSE)
  \/ ContinueReq
  \/ \E j \in DOMAIN rxAwait : DecompressDone(j)
  \/ Tick

SpecShut == InitClose /\ [][NextShut]_vars

(***************************************************************************)
(* A single REQ whose first transmission is lost.  Send completions report *)
(* no error; a datagram that is not lost, a send completion and a          *)
(* decompression are handled before the clock reaches the next multiple of *)
(* TickMs.  call tells whether the channel has lost nothing, only the      *)
(* first copy of the REQ ("lose"), or something else as well ("loseMore"). *)
(***************************************************************************)
\* payload p is sent as a single REQ
IsSingle(p) == Envelopes(cfg.tx, Len(sends) + 1, p)[1].ci = NoChunk

\* the channel loses a datagram
LoseCounted(d) ==
  /\ d \in net
  /\ net' = net \ {d}
  /\ call' = IF call = NoCall /\ DecodeFlags(d.flags).type = REQ /\ sentCount[d.id] = 1
             THEN [op |-> "lose", id |-> d.id, at |-> now]
             ELSE [op |-> "loseMore", id |-> d.id, at |-> now]
  /\ UNCHANGED <<now, cfg, sends, handlers, sendCb, sentCount, dups, assemblies, rxCur,
                 rxAwait, appLog, hist, closed, gen>>
  /\ UNCHANGED ext

\* the clock advances, by half a tick, once everything in flight has been handled
TickLost ==
  /\ sendCb = {} /\ net = {} /\ rxAwait = <<>>
  /\ now + TickMs \div 2 <= MaxTime
  /\ NoTimerDue
  /\ rxCur.pc = <<>>
  /\ now' = now + TickMs \div 2
  /\ UNCHANGED <<cfg, sends, handlers, sendCb, sentCount, net, dups, assemblies, rxCur,
                 rxAwait, appLog, hist>>
  /\ UNCHANGED aux

\* the retry intervals configured: all are shorter than requestTimeout
RetryIntervals == {TickMs \div 2, TickMs, TickMs + TickMs \div 2}

InitLost ==
  /\ InitWith({[c EXCEPT !.tx.retryInterval = r] :
                 c \in ConfigsOf({TRUE, FALSE}, {{GZIP, ZSTD}}), r \in RetryIntervals})
  /\ AuxInit

NextLost ==
  \/ \E p \in Payloads : IsSingle(p) /\ Send(p)
  \/ \E id \in sendCb : SendDone(id, FALSE)
  \/ \E id \in DOMAIN handlers : RetryFire(id)
  \/ \E id \in DOMAIN handlers : TimeoutFire(id)
  \/ TxCleanupTick
  \/ \E d \in net : RecvReq(d, FALSE)
  \/ ContinueReq
  \/ \E j \in DOMAIN rxAwait : DecompressDone(j)
  \/ \E d \in net : RecvAck(d, FALSE)
  \/ \E d \in net : LoseCounted(d)
  \/ TickLost

\* the event loop runs every callback that is due, the channel delivers what it does not
\* lose, and time passes
FairLost ==
  /\ WF_vars(\E id \in sendCb : SendDone(id, FALSE))
  /\ WF_vars(\E id \in DOMAIN handlers : RetryFire(id))
  /\ WF_vars(\E id \in DOMAIN handlers : TimeoutFire(id))
  /\ WF_vars(\E d \in net : RecvReq(d, FALSE))
  /\ WF_vars(ContinueReq)
  /\ WF_vars(\E j \in DOMAIN rxAwait : DecompressDone(j))
  /\ WF_vars(\E d \in net : RecvAck(d, FALSE))
  /\ WF_vars(TickLost)

SpecLost == InitLost /\ [][NextLost]_vars /\ FairLost

(***************************************************************************)
(* RequestTracker driven on its own, through its public methods and its    *)
(* timers.  tracker.handlers is _handlers, with timeoutId and retryTimer   *)
(* holding the numbers of the timers setTimeout returned; tracker.timers   *)
(* is the set of armed timers; tracker.invoked lists the callbacks run:    *)
(* the id, the registration (the number of its timeout timer), which of    *)
(* the two callbacks, and whether _handlers held the id at that moment.    *)
(***************************************************************************)
MaxTimers == 4      \* timers created in one run

TrackIds == {"a", "b"}

\* setTimeout and clearTimeout
SetTimeout(timers, n, kind, messageId, due) ==
  timers \cup {[n |-> n, kind |-> kind, id |-> messageId, due |-> due]}
ClearTimeout(timers, n) == {x \in timers : x.n # n}

\* register: an entry of the same id is overwritten, its timers are left as they are
TrackerRegister(tr, messageId, requestTimeout, t) ==
  LET n == tr.created + 1 IN
  [tr EXCEPT !.handlers = [Register(tr.handlers, messageId, requestTimeout, t)
                             EXCEPT ![messageId].timeoutId = n],
             !.timers = SetTimeout(@, n, "timeout", messageId, t + requestTimeout),
             !.created = n]

\* clearRetryTimer
TrackerClearRetryTimer(tr, messageId) ==
  IF messageId \in DOMAIN tr.handlers /\ tr.handlers[messageId].retryTimer # NoTimer
  THEN [tr EXCEPT !.timers = ClearTimeout(@, tr.handlers[messageId].retryTimer),
                  !.handlers[messageId].retryTimer = NoTimer]
  ELSE tr

\* setRetryTimer with a timer the caller has just armed for the id it found in the tracker
TrackerSetRetryTimer(tr, messageId, due) ==
  LET n == tr.created + 1 IN
  IF messageId \notin DOMAIN tr.handlers THEN [tr |-> tr, result |-> FALSE]
  ELSE [tr |-> [tr EXCEPT
                  !.timers = SetTimeout(
                               IF tr.handlers[messageId].retryTimer # NoTimer
                               THEN ClearTimeout(@, tr.handlers[messageId].retryTimer)
                               ELSE @, n, "retry", messageId, due),
                  !.handlers = SetRetryTimer(@, messageId, n),
                  !.created = n],
        result |-> TRUE]

\* remove
TrackerRemove(tr, messageId) ==
  IF messageId \notin DOMAIN tr.handlers THEN tr
  ELSE LET cleared == TrackerClearRetryTimer(tr, messageId) IN
       [cleared EXCEPT !.timers = ClearTimeout(@, tr.handlers[messageId].timeoutId),
                       !.handlers = Remove(@, messageId)]

\* a faulty invokeAndRemove: the timers are cleared and the callback runs, the entry stays
TrackerInvokeAndRemove_keeps(tr, messageId) ==
  IF messageId \notin DOMAIN tr.handlers THEN [tr |-> tr, result |-> FALSE]
  ELSE LET cleared == TrackerClearRetryTimer(tr, messageId)
           timersOff == [cleared EXCEPT
                           !.timers = ClearTimeout(@, tr.handlers[messageId].timeoutId)]
       IN [tr |-> [timersOff EXCEPT
                     !.invoked = Append(@, [id |-> messageId,
                                            cb |-> tr.handlers[messageId].timeoutId,
                                            kind |-> "resolve", present |-> TRUE])],
           result |-> TRUE]

\* invokeAndRemove: the timers are cleared, the callback runs, then the entry is deleted
TrackerInvokeAndRemove(tr, messageId) ==
  IF messageId \notin DOMAIN tr.handlers THEN [tr |-> tr, result |-> FALSE]
  ELSE LET cleared == TrackerClearRetryTimer(tr, messageId)
           timersOff == [cleared EXCEPT
                           !.timers = ClearTimeout(@, tr.handlers[messageId].timeoutId)]
           called == [timersOff EXCEPT
                        !.invoked = Append(@, [id |-> messageId,
                                               cb |-> tr.handlers[messageId].timeoutId,
                                               kind |-> "resolve",
                                               present |-> messageId \in DOMAIN timersOff.handlers])]
       IN [tr |-> [called EXCEPT !.handlers = Remove(@, messageId)], result |-> TRUE]

\* the callback of the timeout timer x that register armed
TimeoutCallback(tr, x) ==
  LET fired == [tr EXCEPT !.timers = ClearTimeout(@, x.n)] IN
  IF x.id \in DOMAIN fired.handlers
  THEN LET removed == TrackerRemove(fired, x.id) IN
       [removed EXCEPT !.invoked = Append(@, [id |-> x.id, cb |-> x.n, kind |-> "timeout",
                                              present |-> x.id \in DOMAIN removed.handlers])]
  ELSE fired

RECURSIVE RemoveAll(_, _)
RemoveAll(tr, ids) ==
  IF ids = {} THEN tr
  ELSE LET i == CHOOSE i \in ids : TRUE IN RemoveAll(TrackerRemove(tr, i), ids \ {i})

\* cleanupOldRequests
TrackerCleanupOldRequests(tr, maxAge, t) == RemoveAll(tr, OldRequests(tr.handlers, maxAge, t))

\* clear
TrackerClear(tr) == RemoveAll(tr, DOMAIN tr.handlers)

\* what a step of the tracker leaves alone
TrackerFrame ==
  UNCHANGED <<cfg, sends, handlers, sendCb, sentCount, net, dups, assemblies, rxCur,
              rxAwait, appLog, hist, closed, gen, isClosed>>

TrkRegister(id) ==
  /\ tracker.created < MaxTimers
  /\ tracker' = TrackerRegister(tracker, id, cfg.tx.requestTimeout, now)
  /\ call' = [op |-> "register", id |-> id, result |-> TRUE]
  /\ UNCHANGED now /\ TrackerFrame

TrkSetRetryTimer(id) ==
  /\ tracker.created < MaxTimers
  /\ LET r == TrackerSetRetryTimer(tracker, id, now + cfg.tx.retryInterval)
     IN tracker' = r.tr /\ call' = [op |-> "setRetryTimer", id |-> id, result |-> r.result]
  /\ UNCHANGED now /\ TrackerFrame

\* what a callback throws inside try { } catch { log } stays in the function; what it
\* throws outside of a try block leaves the function
Escapes(throws, inTry) == throws /\ ~inTry

\* an ACK or a RES for id has arrived; the callback of the request may throw
TrkInvokeAndRemove(id) ==
  /\ \E throws \in BOOLEAN :
       LET r == TrackerInvokeAndRemove(tracker, id)
       IN /\ throws => r.result
          /\ tracker' = r.tr
          /\ call' = [op |-> "invokeAndRemove", id |-> id, result |-> r.result,
                      threw |-> throws, escaped |-> Escapes(throws, TRUE)]
  /\ UNCHANGED now /\ TrackerFrame

\* the timeout timer x fires; onTimeout may throw
TrkTimeoutFire(x) ==
  /\ x.kind = "timeout"
  /\ x.due <= now
  /\ \E throws \in BOOLEAN :
       /\ throws => x.id \in DOMAIN tracker.handlers
       /\ tracker' = TimeoutCallback(tracker, x)
       /\ call' = [op |-> "timeout", id |-> x.id,
                   result |-> x.id \in DOMAIN tracker.handlers,
                   threw |-> throws, escaped |-> Escapes(throws, FALSE)]
  /\ UNCHANGED now /\ TrackerFrame

\* a retry timer fires: it is no longer armed, the entry still refers to it
TrkRetryFire(x) ==
  /\ x.kind = "retry"
  /\ x.due <= now
  /\ tracker' = [tracker EXCEPT !.timers = ClearTimeout(@, x.n),
                                !.handlers = IF MayRetry(@, x.id, cfg.tx.maxRetries)
                                             THEN IncrementRetry(@, x.id) ELSE @]
  /\ call' = [op |-> "retry", id |-> x.id, result |-> x.id \in DOMAIN tracker.handlers]
  /\ UNCHANGED now /\ TrackerFrame

TrkRemove(id) ==
  /\ tracker' = TrackerRemove(tracker, id)
  /\ call' = [op |-> "remove", id |-> id, result |-> id \in DOMAIN tracker.handlers]
  /\ UNCHANGED now /\ TrackerFrame

\* the number cleanupOldRequests returns
CleanedCount(tr, maxAge, t) == Cardinality(OldRequests(tr.handlers, maxAge, t))

\* the sweep; hist.swept keeps the registrations (by the number of their timeout timer)
\* that a sweep has removed
TrkCleanup ==
  /\ tracker' = TrackerCleanupOldRequests(tracker, REQUEST_CLEANUP_AGE, now)
  /\ call' = [op |-> "cleanupOldRequests", id |-> "",
              result |-> OldRequests(tracker.handlers, REQUEST_CLEANUP_AGE, now) # {},
              count |-> CleanedCount(tracker, REQUEST_CLEANUP_AGE, now)]
  /\ hist' = [hist EXCEPT !.swept = @ \cup
                {tracker.handlers[i].timeoutId :
                   i \in OldRequests(tracker.handlers, REQUEST_CLEANUP_AGE, now)}]
  /\ UNCHANGED <<now, cfg, sends, handlers, sendCb, sentCount, net, dups, assemblies, rxCur,
                 rxAwait, appLog, closed, gen, isClosed>>

TrkClear ==
  /\ tracker' = TrackerClear(tracker)
  /\ call' = [op |-> "clear", id |-> "", result |-> TRUE]
  /\ UNCHANGED now /\ TrackerFrame

TrkTick ==
  /\ now + TickMs <= MaxTime
  /\ now' = now + TickMs
  /\ call' = [op |-> "tick", id |-> "", result |-> TRUE]
  /\ UNCHANGED tracker /\ TrackerFrame

InitTracker == InitWith(ConfigsOf({TRUE}, {{GZIP, ZSTD}})) /\ AuxInit

NextTracker ==
  \/ \E id \in TrackIds : TrkRegister(id)
  \/ \E id \in TrackIds : TrkSetRetryTimer(id)
  \/ \E id \in TrackIds : TrkInvokeAndRemove(id)
  \/ \E x \in tracker.timers : TrkTimeoutFire(x)
  \/ \E x \in tracker.timers : TrkRetryFire(x)
  \/ \E id \in TrackIds : TrkRemove(id)
  \/ TrkCleanup
  \/ TrkClear
  \/ TrkTick

SpecTracker == InitTracker /\ [][NextTracker]_vars

(***************************************************************************)
(* The receiving engine with two peers.  Both peers split a message into   *)
(* three chunks and both generators returned the same id for it (same      *)
(* worker id, same millisecond, same sequence); the first peer also sends  *)
(* a message of two chunks with an id of its own.  Messages 1 and 3 are    *)
(* the first peer's, message 2 is the second peer's.  The clock advances   *)
(* by half ticks and the cleanup timer of the engine fires at any moment.  *)
(***************************************************************************)
MaxArrivals == 3    \* chunk datagrams that arrive in one run

RECURSIVE Total(_)
Total(f) ==
  IF DOMAIN f = {} THEN 0
  ELSE LET k == CHOOSE k \in DOMAIN f : TRUE
       IN f[k] + Total([i \in DOMAIN f \ {k} |-> f[i]])

PeersOf(m) == IF m = 2 THEN "second" ELSE "first"

TwoSenders(c) ==
  LET long == [size |-> 2 * c.chunkSize + 1, csize |-> 2 * c.chunkSize + 1]
      short == [size |-> c.chunkSize + 1, csize |-> c.chunkSize + 1]
      one == Envelopes(c, 1, long)
      two == Envelopes(c, 2, long)
      three == Envelopes(c, 3, short)
  IN {[one[j] EXCEPT !.checksum = Undefined] : j \in DOMAIN one}
     \cup {[two[j] EXCEPT !.checksum = Undefined, !.id = one[j].id] : j \in DOMAIN two}
     \cup {[three[j] EXCEPT !.checksum = Undefined] : j \in DOMAIN three}

\* a chunk REQ of one of the peers reaches the socket
InjectPeer(d) ==
  /\ d \in TwoSenders(cfg.tx)
  /\ d \notin net
  /\ Total(sentCount) < MaxArrivals
  /\ net' = net \cup {d}
  /\ sentCount' = Inc(sentCount, d.id)
  /\ UNCHANGED <<now, cfg, sends, handlers, sendCb, dups, assemblies, rxCur, rxAwait,
                 appLog, hist>>
  /\ UNCHANGED aux

\* the number cleanupStaleAssemblies returns
StaleCount(as, reassemblyTimeout, t) ==
  Cardinality({b \in DOMAIN as : t - as[b].timestamp > reassemblyTimeout})

\* the callback of the cleanup interval: cleanupStaleAssemblies(), then
\* cleanupOldRequests(REQUEST_CLEANUP_AGE); flip tells one run from the next
CleanupTimer ==
  /\ rxCur.pc = <<>>
  /\ assemblies' = CleanupStaleAssemblies(assemblies, cfg.rx.reassemblyTimeout, now)
  /\ handlers' = [i \in DOMAIN handlers \ OldRequests(handlers, REQUEST_CLEANUP_AGE, now)
                    |-> handlers[i]]
  /\ call' = [op |-> "cleanupStaleAssemblies",
              count |-> StaleCount(assemblies, cfg.rx.reassemblyTimeout, now),
              flip |-> IF call.op = "cleanupStaleAssemblies" THEN ~call.flip ELSE FALSE]
  /\ UNCHANGED <<now, cfg, sends, sendCb, sentCount, net, dups, rxCur, rxAwait, appLog,
                 hist, closed, gen>>
  /\ UNCHANGED ext

PeersTick ==
  /\ now + TickMs \div 2 <= MaxTime
  /\ rxCur.pc = <<>>
  /\ now' = now + TickMs \div 2
  /\ UNCHANGED <<cfg, sends, handlers, sendCb, sentCount, net, dups, assemblies, rxCur,
                 rxAwait, appLog, hist>>
  /\ UNCHANGED aux

InitPeers == InitWith(ConfigsOf({TRUE}, {{GZIP, ZSTD}})) /\ AuxInit

NextPeers ==
  \/ \E d \in TwoSenders(cfg.tx) : InjectPeer(d)
  \/ \E d \in net : RecvReq(d, FALSE)
  \/ ContinueReq
  \/ CleanupTimer
  \/ PeersTick

SpecPeers == InitPeers /\ [][NextPeers]_vars

(***************************************************************************)
(* The receiving engine is configured again while chunks of the first      *)
(* peer's messages 1 and 3 arrive.                                          *)
(***************************************************************************)
\* configure({}), configure({maxRetries}), configure({reassemblyTimeout}) and both
ReconfOptions ==
  {options \in OptionsTried : options.maxMessageSize = Absent /\ options.chunkSize = Absent}

FirstPeer(c) == {d \in TwoSenders(c) : PeersOf(d.body.m) = "first"}

NextReconf ==
  \/ \E d \in FirstPeer(cfg.tx) : InjectPeer(d)
  \/ \E d \in net : RecvReq(d, FALSE)
  \/ ContinueReq
  \/ rxCur.pc = <<>> /\ \E options \in ReconfOptions : DoConfigure(options)

SpecReconf == InitPeers /\ [][NextReconf]_vars

(***************************************************************************)
(* Properties                                                              *)
(***************************************************************************)
\* the REQ ids of logical send m
IdsOf(m) ==
  IF sends[m].n = 0 THEN {MsgId(m)} ELSE {ChunkId(m, i) : i \in 0..(sends[m].n - 1)}
\* the codec named in the flags of its first envelope
CodecOf(m) == DecodeFlags(Envelopes(cfg.tx, m, sends[m].payload)[1].flags).codec
\* the values handed to the application for m, and the decompressions awaited for it
Handed(m) == {i \in DOMAIN appLog : appLog[i].for = m}
Awaited(m) == {j \in DOMAIN rxAwait : rxAwait[j].for = m}
\* the completion of send m has fired with success
Succeeded(m) == \E i \in DOMAIN sends[m].cb : sends[m].cb[i] = "ok"
\* nothing is in flight and the receiver has nothing left to do
Quiescent == net = {} /\ rxCur.pc = <<>> /\ rxAwait = <<>>

C2_AckBeforeWork ==
  /\ \A id \in DOMAIN hist.works : Count(hist.works, id) <= Count(hist.acks, id)
  /\ rxCur.pc # <<>> =>
       /\ rxCur.pc = <<"work">>
       /\ Count(hist.acks, rxCur.req.id) = Count(hist.works, rxCur.req.id) + 1

\* a REQ has been acknowledged, worked on and delivered
C2_Witness ==
  /\ appLog # <<>>
  /\ \E id \in DOMAIN hist.works : Count(hist.works, id) = Count(hist.acks, id)

\* C3 (as stated): at-least-once delivery. Whenever the completion of a send has fired
\* with success, the receiver delivers that logical message to its application at least
\* once: when nothing is in flight any more, something has been handed over for it.
C3_AtLeastOnce ==
  \A m \in DOMAIN sends : (Succeeded(m) /\ Quiescent) => Handed(m) # {}

\* C4: the completion of a chunked send of N chunks fires with success only after an
\* ACK has been processed for each of the N chunk ids, a duplicate ACK is not counted,
\* it fires with failure as soon as one chunk's request timeout expires, and after a
\* failure no success is reported: the completion fires at most once.
C4_ChunkedCompletion ==
  \A m \in DOMAIN sends :
    sends[m].n > 0 =>
      /\ Len(sends[m].cb) <= 1
      /\ sends[m].completedChunks <= Cardinality(IdsOf(m) \cap hist.acked)
      /\ Succeeded(m) => IdsOf(m) \subseteq hist.acked
      /\ IdsOf(m) \cap hist.timedOut # {} => sends[m].cb = <<"timeout">>

\* a chunked send has succeeded although one chunk was acknowledged twice
C4_Witness ==
  \E m \in DOMAIN sends :
    /\ sends[m].n > 0
    /\ sends[m].cb = <<"ok">>
    /\ \E id \in IdsOf(m) : Count(hist.acks, id) >= 2

C6_LeavesByTimeout ==
  \A id \in DOMAIN sentCount :
    id \notin DOMAIN handlers => id \in hist.acked \cup hist.timedOut

\* C6 (amended): exhausting the retries does not terminate a request. Its handle stays
\* in the tracker until the ACK, until requestTimeout has elapsed (the handle is removed
\* and the send completion receives the timeout error) or until the cleanup sweep finds
\* it older than REQUEST_CLEANUP_AGE and removes it without any callback; it never stays
\* past requestTimeout.
C6_Deadline ==
  \A id \in DOMAIN sentCount :
    /\ id \in DOMAIN handlers =>
         /\ handlers[id].timeoutId = handlers[id].timestamp + cfg.tx.requestTimeout
         /\ now <= handlers[id].timeoutId
    /\ id \notin DOMAIN handlers => id \in hist.acked \cup hist.timedOut \cup hist.swept
    /\ id \in hist.timedOut =>
         /\ id \notin DOMAIN handlers
         /\ now >= cfg.tx.requestTimeout
         /\ sends[id.base].cb = <<"timeout">>
    /\ id \in hist.swept => now > REQUEST_CLEANUP_AGE

\* a request that had used all its retries has timed out
C6_Witness ==
  \E id \in hist.timedOut : sentCount[id] = 1 + cfg.tx.maxRetries

\* C7: once the ACK for an id has been processed by the sender, no further REQ with
\* that id is put on the wire, whatever retry timers or send completions were pending.
C7_NoSendAfterAck ==
  [][\A id \in hist.acked : sentCount'[id] = sentCount[id]]_vars

\* an ACK has been processed while the completion of the REQ's send was still pending
C7_Witness ==
  \E id \in hist.acked : id \in sendCb /\ sentCount[id] <= cfg.tx.maxRetries

\* C8 (as stated): when the datagram layer reports an error for a REQ transmission and
\* the handle is still outstanding, not acknowledged and has retries left, a retry is
\* scheduled.
C8_RetryAfterSendError ==
  \A id \in hist.sendFailed :
    MayRetry(handlers, id, cfg.tx.maxRetries) => handlers[id].retryTimer # NoTimer

\* the checksum a REQ carries does not match the one recomputed over its body
BadChecksum(d) == d.checksum # Undefined /\ CalculateChecksum(d.body) # d.checksum

\* C9: with checksums enabled, a REQ whose checksum does not match is dropped silently:
\* no ACK is emitted, nothing is delivered or awaited, no assembly is created or
\* modified, and the sender's handle and timers for that id stay as they are.
C9_SilentDrop ==
  [][\A d \in net :
       (/\ cfg.rx.enableChecksum
        /\ BadChecksum(d)
        /\ \E keep \in BOOLEAN : RecvReq(d, keep))
       => /\ net' \subseteq net
          /\ UNCHANGED <<assemblies, rxCur, rxAwait, appLog, sends, handlers, sendCb,
                         sentCount>>]_vars

\* a damaged REQ has been dropped and its request is still outstanding at the sender
C9_Witness ==
  \E id \in hist.dropped :
    /\ id \in DOMAIN handlers
    /\ Count(hist.acks, id) = 0
    /\ appLog = <<>>

\* C10 (as stated): when the codec named in a REQ's flags is unavailable on the
\* receiver, nothing is handed to the application for that logical message.
C10_NothingHanded ==
  \A m \in DOMAIN sends :
    CodecOf(m) \notin cfg.rx.codecs \cup {NONE} => Handed(m) = {}

\* C13 (as stated): any two ids one generator returns are distinct, whatever the clock
\* does between calls: no id is returned a second time.
C13_Unique == ~gen.dup

\* C14: generate() fails with ClockBackwards exactly when the clock reading at its start
\* is smaller than lastTimestamp; with a reading >= lastTimestamp it does not fail, also
\* when the sequence wraps and it waits for the next millisecond.
C14_ClockBackwards ==
  gen.calls > 0 =>
    /\ gen.last.threw <=> gen.last.reading < gen.last.before
    /\ gen.last.threw => gen.g.lastTimestamp = gen.last.before
    /\ ~gen.last.threw => gen.g.lastTimestamp >= gen.last.reading

\* generate() has failed after the clock stepped backwards
C14_Witness ==
  gen.calls > 1 /\ gen.last.threw /\ gen.last.reading < gen.last.before

\* C15: for every type, codec and pair of booleans, decodeFlags(encodeFlags(type,
\* codec, compressed, chunked)) is exactly (type, codec, compressed, chunked), and the
\* encoded byte is in 0..127 (bit 7 clear).
C15_FlagRoundTrip ==
  (call.op = "flags" /\ call.done) =>
    /\ call.decoded = [type |-> call.type, codec |-> call.codec,
                       isCompressed |-> call.isCompressed, isChunked |-> call.isChunked]
    /\ call.flags \in 0..127

\* the flags of a compressed, chunked RES with the last codec have been encoded and decoded
C15_Witness ==
  /\ call.op = "flags" /\ call.done
  /\ call.type = RES /\ call.codec = ZSTD /\ call.isCompressed /\ call.isChunked

\* C18: a payload is sent as a single REQ (one envelope without ci/ct, one handle) if
\* and only if its final byte length, after the optional compression (the base64 text
\* of the codec's output when compression is applied, the JSON text otherwise), is at
\* most maxMessageSize; a longer one is sent as chunk REQs, one handle each.
C18_SingleIffFits ==
  call.op = "send" =>
    /\ call.finalSize = IF call.compressed THEN 4 * CeilDiv(call.payload.csize, 3)
                                           ELSE call.payload.size
    /\ (call.count = 1 /\ call.plain /\ call.handles = 1)
         <=> call.finalSize <= cfg.tx.maxMessageSize
    /\ call.finalSize > cfg.tx.maxMessageSize =>
         call.chunked /\ ~call.plain /\ call.handles = call.count

\* a payload of exactly maxMessageSize bytes has been sent as a single REQ
C18_Witness ==
  /\ call.op = "send"
  /\ call.finalSize = cfg.tx.maxMessageSize
  /\ call.count = 1 /\ call.plain

\* C19 (as stated): under every configuration configure accepts, a payload whose final
\* byte length is maxMessageSize + 1 is transmitted as at least 2 chunk REQs.
C19_TwoChunks ==
  (/\ call.op = "send"
   /\ ~ValidateOptions(cfg.tx)
   /\ call.finalSize = cfg.tx.maxMessageSize + 1)
  => call.count >= 2

C17_ChunkRoundTrip ==
  call.op = "chunks" =>
    LET total == Len(call.envs)
        length == ByteLength(call.data)
    IN /\ total * cfg.tx.chunkSize >= length
       /\ (total - 1) * cfg.tx.chunkSize < length
       /\ call.fed > 0 =>
            /\ DOMAIN assemblies = {1}
            /\ assemblies[1].compressionCodec = call.data.z
            /\ assemblies[1].totalChunks = total
            /\ assemblies[1].receivedCount = Cardinality(call.seen)
            /\ GetAssembledData(assemblies, 1) =
                 IF call.seen = DOMAIN call.envs THEN Utf8Bytes(call.data) ELSE Null

\* every chunk of a compressed message in three or more chunks has been added, at least
\* one of them more than once, and the bytes have been reassembled
C17_Witness ==
  /\ call.op = "chunks"
  /\ call.seen = DOMAIN call.envs
  /\ Len(call.envs) >= 3
  /\ call.fed > Len(call.envs)
  /\ call.data.z # NONE
  /\ GetAssembledData(assemblies, 1) = Utf8Bytes(call.data)

\* the assembly of chunk REQ req once _handleChunkedRequest has added the chunk
AfterAdd(req) ==
  LET baseId == SplitBase(req.id)
      as1 == IF baseId \notin DOMAIN assemblies
             THEN InitAssembly(assemblies, baseId, req.ct, DecodeFlags(req.flags).codec, now)
             ELSE assemblies
  IN AddChunk(as1, baseId, req.ci, req.body)[baseId]

\* every slot is non-empty and received_count = total
Full(a) ==
  a.receivedCount = a.totalChunks /\ \A i \in DOMAIN a.chunks : a.chunks[i] # Null

\* the step hands a message to the application, or to the codec on its way there
Delivers == Len(appLog') > Len(appLog) \/ Len(rxAwait') > Len(rxAwait)

\* the receiver is about to do the work of a chunk REQ
ChunkWork ==
  /\ rxCur.pc # <<>>
  /\ Head(rxCur.pc) = "work"
  /\ rxCur.req.ci # NoChunk /\ rxCur.req.ct # NoChunk

\* C16 (as stated): an assembly is delivered to the application if and only if every
\* one of its slots is non-empty and received_count = total, and a delivered assembly
\* is removed from the assembly map.
C16_DeliveredIffFull ==
  [][(ChunkWork /\ rxCur' # rxCur) =>
       /\ Delivers <=> Full(AfterAdd(rxCur.req))
       /\ Delivers => SplitBase(rxCur.req.id) \notin DOMAIN assemblies']_vars

\* C11 (as stated): every incoming datagram that does not parse as an envelope, and
\* every envelope whose type bits are not REQ, ACK or RES, is forwarded to the
\* application's passthrough channel; none is dropped, and no tracker or assembly state
\* changes.
C11_Passthrough ==
  [][(call'.op = "peer" /\ call' # call) =>
       /\ Len(appLog') = Len(appLog) + 1
       /\ appLog'[Len(appLog')].for = NoChunk
       /\ handlers' = handlers
       /\ assemblies' = assemblies]_vars

\* the REQ datagrams in the channel
Requests(n) == {d \in n : DecodeFlags(d.flags).type = REQ}

C30_SequenceWrap ==
  /\ gen.g.sequence \in 0..SNOWFLAKE_MAX_SEQUENCE
  /\ (/\ gen.calls > 0
      /\ ~gen.last.threw
      /\ gen.last.countBefore >= SNOWFLAKE_MAX_SEQUENCE + 1)
     => gen.last.timestamp > gen.last.before /\ gen.g.sequence = 0

\* C26 (as stated): when the matching ACK arrives for an outstanding single REQ, its
\* handle stays in the tracker with ack_received = true and the request has not
\* terminated: the completion has not fired.
C26_AckedStays ==
  [][\A id \in DOMAIN handlers :
       (id.chunk = NoChunk /\ id \in hist'.acked /\ id \notin hist.acked) =>
         /\ id \in DOMAIN handlers'
         /\ handlers'[id].ackReceived
         /\ sends' = sends]_vars

\* C28: once a slot of an assembly is filled, a further addChunk for the same base id
\* and index, with the same or with other data, leaves the slot, received_count and
\* every other assembly as they are, and hands nothing to the application.
C28_AddChunkIdempotent ==
  [][(/\ ChunkWork
      /\ rxCur' # rxCur
      /\ SplitBase(rxCur.req.id) \in DOMAIN assemblies
      /\ rxCur.req.ci \in DOMAIN assemblies[SplitBase(rxCur.req.id)].chunks
      /\ assemblies[SplitBase(rxCur.req.id)].chunks[rxCur.req.ci] # Null)
     => assemblies' = assemblies /\ ~Delivers]_vars

\* chunk 0 of message 1 has been added twice, the second time to the filled slot, and
\* the assembly still counts one chunk
C28_Witness ==
  /\ Count(hist.works, ChunkId(1, 0)) = 2
  /\ rxCur.pc = <<>>
  /\ 1 \in DOMAIN assemblies
  /\ assemblies[1].chunks[0] # Null
  /\ assemblies[1].receivedCount = 1

\* C29 (as stated): whatever chunk REQs are received, every assembly has exactly total
\* slots, received_count equals the number of non-empty slots, and received_count is
\* at most total.
C29_AssemblyInvariant ==
  \A b \in DOMAIN assemblies :
    LET a == assemblies[b]
    IN /\ DOMAIN a.chunks = 0..(a.totalChunks - 1)
       /\ a.receivedCount = Cardinality({i \in DOMAIN a.chunks : a.chunks[i] # Null})
       /\ a.receivedCount <= a.totalChunks

\* C23: once the sender's socket has been closed, a sendMessage call hands an error to its
\* completion, registers no request handle and emits no datagram.
C23_ClosedSocketSend ==
  [][(IsClosed("tx") /\ Len(sends') = Len(sends) + 1) =>
       /\ handlers' = handlers
       /\ net' = net
       /\ sends'[Len(sends')].cb \in {<<"closed">>, <<"error">>}]_vars

\* the callbacks the tracker has run for the registration whose timeout timer is n
Invocations(tr, n) == {i \in DOMAIN tr.invoked : tr.invoked[i].cb = n}

\* C24: for every registered request the tracker runs at most one of on_resolve and
\* on_timeout, and at most once, whatever the order of ACK/RES arrivals, timer expiries,
\* sweeps and clear; invokeAndRemove returns true exactly when that call ran on_resolve,
\* and for an unknown id returns false and changes nothing.
C24_AtMostOneCallback ==
  [][/\ \A n \in 1..tracker'.created : Cardinality(Invocations(tracker', n)) <= 1
     /\ call'.op = "invokeAndRemove" =>
          /\ call'.result <=> Len(tracker'.invoked) = Len(tracker.invoked) + 1
          /\ call'.result =>
               tracker'.invoked[Len(tracker'.invoked)] =
                 [id |-> call'.id, cb |-> tracker.handlers[call'.id].timeoutId,
                  kind |-> "resolve", present |-> TRUE]
          /\ call'.id \notin DOMAIN tracker.handlers =>
               ~call'.result /\ tracker' = tracker]_vars

\* one request has been resolved, another has timed out, and a later ACK for an id whose
\* callback has already run has just been refused
C24_Witness ==
  /\ \E i, j \in DOMAIN tracker.invoked :
       /\ tracker.invoked[i].kind = "resolve"
       /\ tracker.invoked[j].kind = "timeout"
  /\ call.op = "invokeAndRemove" /\ ~call.result
  /\ \E i \in DOMAIN tracker.invoked : tracker.invoked[i].id = call.id

\* C25: when the tracker runs a callback, the id is no longer in its map.
C25_RemovedBeforeCallback ==
  \A i \in DOMAIN tracker.invoked : ~tracker.invoked[i].present

\* C27: per id at most one timeout timer and at most one retry timer is armed, no timer is
\* armed for an id that is not in the tracker, and setRetryTimer returns false and stores
\* nothing for an unknown id.
C27_TimerInvariant ==
  [][/\ \A id \in TrackIds, kind \in {"timeout", "retry"} :
          Cardinality({x \in tracker'.timers : x.id = id /\ x.kind = kind}) <= 1
     /\ \A x \in tracker'.timers : x.id \in DOMAIN tracker'.handlers
     /\ (call'.op = "setRetryTimer" /\ call'.id \notin DOMAIN tracker.handlers) =>
          ~call'.result /\ tracker' = tracker]_vars

\* C22: configure(options) changes only the parameters present in options; a parameter
\* absent from the call keeps the value earlier configure calls gave it.
C22_AbsentKept ==
  [][(call'.op = "configure" /\ cfg' # cfg) =>
       /\ call'.options.maxMessageSize = Absent =>
            cfg'.tx.maxMessageSize = cfg.tx.maxMessageSize
       /\ call'.options.maxRetries = Absent => cfg'.tx.maxRetries = cfg.tx.maxRetries
       /\ call'.options.chunkSize = Absent => cfg'.tx.chunkSize = cfg.tx.chunkSize
       /\ call'.options.reassemblyTimeout = Absent =>
            cfg'.rx.reassemblyTimeout = cfg.rx.reassemblyTimeout]_vars

\* the first transmission of the single REQ of send 1 is all the channel has lost
FirstLost == call.op = "lose" /\ call.id = MsgId(1)
\* the channel has lost something else
MoreLost == call.op = "loseMore"

\* what C21 promises once the first transmission is lost and while nothing else is
LostSafe ==
  /\ sends[1].cb \in {<<>>, <<"ok">>}
  /\ MsgId(1) \notin hist.timedOut
  /\ Cardinality(Handed(1)) <= 1
  /\ sentCount[MsgId(1)] <= 2
  /\ sentCount[MsgId(1)] = 2 => now >= call.at + cfg.tx.retryInterval
  /\ now >= call.at + cfg.tx.requestTimeout => Succeeded(1)

\* the exchange of send 1 has ended as C21 promises
LostDone ==
  /\ Len(sends) >= 1
  /\ Succeeded(1)
  /\ sentCount[MsgId(1)] = 2
  /\ Cardinality(Handed(1)) = 1

C39_FailedGenerateKeepsState ==
  [][(gen'.calls = gen.calls + 1 /\ gen'.last.threw) => gen'.g = gen.g]_vars

\* C38 (as stated): a configure call rejected with ConfigError leaves the engine's
\* configuration exactly as it was before the call.
C38_RejectedConfigureKeepsConfig ==
  [][(call'.op = "configure" /\ call'.threw) => cfg' = cfg]_vars

\* C35 (as stated): for every send call the completion is invoked at most once,
\* whatever the interleaving of ACKs, timeouts, send errors, a synchronous failure of
\* the socket's send after the handle was registered, and close.
C35_CompletionAtMostOnce ==
  \A m \in DOMAIN sends : Len(sends[m].cb) <= 1

\* C34 (as stated): an exception thrown by a request's callback never leaves the
\* tracker: when on_resolve throws, invokeAndRemove still removes the entry and returns
\* true; when on_timeout throws, the exception is caught and the entry is removed.
C34_CallbackThrowContained ==
  (call.op \in {"invokeAndRemove", "timeout"} /\ call.threw) =>
    /\ ~call.escaped
    /\ call.result
    /\ call.id \notin DOMAIN tracker.handlers

\* C31: cleanupOldRequests(maxAge) removes exactly the entries whose age (now -
\* timestamp) is greater than maxAge and returns their number, cancels their timeout
\* and retry timers so that no callback of a removed registration is ever run, and
\* leaves every other entry and its timers as they were.
C31_CleanupOldRequests ==
  /\ [][call'.op = "cleanupOldRequests" =>
          LET old == {i \in DOMAIN tracker.handlers :
                        now - tracker.handlers[i].timestamp > REQUEST_CLEANUP_AGE}
              gone == {tracker.handlers[i].timeoutId : i \in old}
                        \cup {tracker.handlers[i].retryTimer : i \in old}
          IN /\ DOMAIN tracker'.handlers = DOMAIN tracker.handlers \ old
             /\ \A i \in DOMAIN tracker'.handlers :
                  tracker'.handlers[i] = tracker.handlers[i]
             /\ tracker'.timers = {x \in tracker.timers : x.n \notin gone}
             /\ tracker'.invoked = tracker.invoked
             /\ call'.count = Cardinality(old)]_vars
  /\ [](\A i \in DOMAIN tracker.invoked : tracker.invoked[i].cb \notin hist.swept)

\* a sweep has just removed one entry and kept a younger one, and the timeout timer of
\* an earlier registration of the removed id is still armed
C31_Witness ==
  /\ call.op = "cleanupOldRequests" /\ call.count = 1
  /\ DOMAIN tracker.handlers # {}
  /\ hist.swept # {}
  /\ \E x \in tracker.timers : x.id \notin DOMAIN tracker.handlers

\* C32: cleanupStaleAssemblies removes exactly the assemblies whose age since their
\* creation is greater than reassemblyTimeout and returns their number, leaves every
\* other assembly as it was and sends no datagram; a chunk that arrives later does not
\* renew the creation time.
C32_CleanupStale ==
  [][/\ \A b \in DOMAIN assemblies \cap DOMAIN assemblies' :
          assemblies'[b].timestamp = assemblies[b].timestamp
     /\ (call'.op = "cleanupStaleAssemblies" /\ call' # call) =>
          LET stale == {b \in DOMAIN assemblies :
                          now - assemblies[b].timestamp > cfg.rx.reassemblyTimeout}
          IN /\ DOMAIN assemblies' = DOMAIN assemblies \ stale
             /\ \A b \in DOMAIN assemblies' : assemblies'[b] = assemblies[b]
             /\ call'.count = Cardinality(stale)
             /\ net' = net]_vars

\* the cleanup has just removed one assembly and kept a younger one that holds a chunk
C32_Witness ==
  /\ call.op = "cleanupStaleAssemblies" /\ call.count = 1
  /\ \E b \in DOMAIN assemblies :
       /\ assemblies[b].receivedCount > 0
       /\ assemblies[b].timestamp > 0
       /\ now - assemblies[b].timestamp = cfg.rx.reassemblyTimeout

\* C36 (as stated): chunks received from different peers are never placed in the same
\* assembly, also when the peers' chunk ids share the base id.
C36_AssemblyPerSender ==
  \A b \in DOMAIN assemblies :
    \A i, j \in DOMAIN assemblies[b].chunks :
      (assemblies[b].chunks[i] # Null /\ assemblies[b].chunks[j] # Null) =>
        PeersOf(assemblies[b].chunks[i].m) = PeersOf(assemblies[b].chunks[j].m)

\* C33: the N envelopes of a chunked send have the ids <id>-chunk-i with ci = i for
\* i in 0..N-1 (all distinct), ct = N, the chunked bit and the same codec bits on every
\* chunk, the compressed bit and the os/cs sizes on chunk 0 only, and one tracker
\* entry is registered per chunk id.
C33_ChunkEnvelopes ==
  (call.op = "send" /\ ~call.plain) =>
    LET envs == Envelopes(cfg.tx, 1, call.payload)
        N == Len(envs)
        flags(j) == DecodeFlags(envs[j].flags)
    IN /\ call.count = N
       /\ \A j \in 1..N :
            /\ envs[j].id = [base |-> 1, chunk |-> j - 1]
            /\ envs[j].ci = j - 1
            /\ envs[j].ct = N
            /\ flags(j).type = REQ
            /\ flags(j).isChunked
            /\ flags(j).codec = flags(1).codec
            /\ j > 1 => /\ ~flags(j).isCompressed
                        /\ envs[j].os = NoChunk
                        /\ envs[j].cs = NoChunk
       /\ flags(1).isCompressed <=> flags(1).codec # NONE
       /\ flags(1).isCompressed <=> envs[1].os # NoChunk /\ envs[1].cs # NoChunk
       /\ \A i, j \in 1..N : i # j => envs[i].id # envs[j].id
       /\ call.handles = N

\* a compressed message has been sent in three chunks or more
C33_Witness ==
  /\ call.op = "send" /\ call.count >= 3 /\ call.handles = call.count
  /\ call.compressed
  /\ call.finalSize > cfg.tx.maxMessageSize

\* C37 (as stated): configure() called while an assembly is partial does not discard
\* it: once every chunk of a message has been received, before or after the call, the
\* message has been delivered.
C37_PartialStillCompletes ==
  \A m \in {1, 3} :
    (/\ rxCur.pc = <<>>
     /\ \A d \in FirstPeer(cfg.tx) : d.body.m = m => Count(hist.works, d.id) >= 1)
    => \E i \in DOMAIN appLog : appLog[i].for = m

====
